---- MODULE Spec2Model ----
(***************************************************************************)
(* Model of the codex_verifier job runner of hackutd-legend:               *)
(*   preflight.py  policy_gate / compile_plan / static_audit               *)
(*   exec_pool.py  run_cmd / execute_plan                                  *)
(*   runner.py     submit_job / stream_events / get_result /               *)
(*                 _run_job_thread / _parse_validator_spec                 *)
(*   deep_agent/agent_runner.py  _execute_verification_plan_tool           *)
(* Strings are sequences of one-character strings.  Floats that the        *)
(* validators compare are kept in hundredths.                              *)
(***************************************************************************)
EXTENDS Integers, Sequences, FiniteSets, TLC

VARIABLES
    JOBS,       \* runner.JOBS: job_id -> index of the bundle stored, 0 = absent
    bundles,    \* bundle objects; bundle r is the one request r created
    evq,        \* evq[b]: content of the queue.Queue of bundle b
    emitted,    \* emitted[b]: every event ever put on evq[b], in put order
    reqs,       \* submissions (HTTP requests and agent tool calls), one slot each
    execs,      \* execs[r]: the background execution that request r started
    streams,    \* agent path: streams[r], the Stream rows written by call r
    consumers,  \* stream_events generators
    budget,     \* how many requests and consumers this run has, and on which paths
    input,      \* argument of the function under check (function specs)
    output      \* its result

vars == <<JOBS, bundles, evq, emitted, reqs, execs, streams, consumers,
          budget, input, output>>

None == "None"

(***************************************************************************)
(* Strings                                                                 *)
(***************************************************************************)
UpperCase == <<"A","B","C","D","E","F","G","H","I","J","K","L","M",
               "N","O","P","Q","R","S","T","U","V","W","X","Y","Z">>
LowerCase == <<"a","b","c","d","e","f","g","h","i","j","k","l","m",
               "n","o","p","q","r","s","t","u","v","w","x","y","z">>

LowerChar(c) ==
    IF \E i \in 1..26 : UpperCase[i] = c
    THEN LowerCase[CHOOSE i \in 1..26 : UpperCase[i] = c]
    ELSE c

\* str.lower()
Lower(s) == [i \in 1..Len(s) |-> LowerChar(s[i])]

\* p in s
Contains(p, s) ==
    \E i \in 0..(Len(s) - Len(p)) : SubSeq(s, i + 1, i + Len(p)) = p

\* s.startswith(p)
StartsWith(s, p) == Len(p) <= Len(s) /\ SubSeq(s, 1, Len(p)) = p

IsSpace(c) == c \in {" ", "\t", "\n"}

\* str.strip()
RECURSIVE LStrip(_)
LStrip(s) == IF s # <<>> /\ IsSpace(s[1]) THEN LStrip(Tail(s)) ELSE s
RECURSIVE RStrip(_)
RStrip(s) ==
    IF s # <<>> /\ IsSpace(s[Len(s)]) THEN RStrip(SubSeq(s, 1, Len(s) - 1)) ELSE s
Strip(s) == RStrip(LStrip(s))

\* str.split(): the maximal runs of non-whitespace characters
RECURSIVE SplitFrom(_, _, _)
SplitFrom(s, cur, acc) ==
    IF s = <<>> THEN (IF cur = <<>> THEN acc ELSE Append(acc, cur))
    ELSE IF IsSpace(s[1])
         THEN SplitFrom(Tail(s), <<>>, IF cur = <<>> THEN acc ELSE Append(acc, cur))
         ELSE SplitFrom(Tail(s), Append(cur, s[1]), acc)
Split(s) == SplitFrom(s, <<>>, <<>>)

RECURSIVE Concat(_)
Concat(ss) == IF ss = <<>> THEN <<>> ELSE Head(ss) \o Concat(Tail(ss))

IsPrefix(s, t) == Len(s) <= Len(t) /\ SubSeq(t, 1, Len(s)) = s

(***************************************************************************)
(* Catalog (catalog.yaml, loaded once by Catalog.load)                     *)
(* A command template is a sequence of literal pieces and placeholders.    *)
(***************************************************************************)
Lit(s) == [lit |-> s]
Ph(k)  == [ph |-> k]

CAT  == <<"c","a","t"," ">>
SUDO == <<"s","u","d","o">>
SMART == <<"s","m","a","r","t">>

Catalog ==
    [actions |->
        [a \in {"read_meminfo", "read_file", "read_smart", "flash_fw"} |->
            CASE a = "read_meminfo" ->
                    [cmd |-> <<Lit(CAT \o <<"m">>)>>,
                     read_only |-> TRUE, requires_sudo |-> FALSE,
                     parser |-> "parse_meminfo"]
              [] a = "read_file" ->
                    [cmd |-> <<Lit(CAT), Ph("path")>>,
                     read_only |-> TRUE, requires_sudo |-> FALSE,
                     parser |-> None]
              [] a = "read_smart" ->
                    [cmd |-> <<Lit(SUDO \o <<" ","-","n"," ">> \o SMART)>>,
                     read_only |-> TRUE, requires_sudo |-> TRUE,
                     parser |-> "parse_smart"]
              [] a = "flash_fw" ->
                    [cmd |-> <<Lit(<<"f","w"," ">>), Ph("img")>>,
                     read_only |-> FALSE, requires_sudo |-> FALSE,
                     parser |-> None]],
     profiles |->
        [p \in {"verify_readonly", "extended_verify"} |->
            IF p = "verify_readonly"
            THEN [max_timeout_s |-> 1, allow_sudo |-> {SMART}]
            ELSE [max_timeout_s |-> 2, allow_sudo |-> {}]]]

\* The literal text of a template (a["cmd"] as policy_gate reads it):
\* placeholders appear as {name}
TemplateText(tpl) ==
    Concat([i \in 1..Len(tpl) |->
              IF "lit" \in DOMAIN tpl[i] THEN tpl[i].lit
              ELSE <<"{">> \o <<tpl[i].ph>> \o <<"}">>])

(***************************************************************************)
(* preflight.py                                                            *)
(***************************************************************************)
Ok == [ok |-> TRUE]
\* a raised ValueError: the stage that raised it, the message, the action or
\* profile it names and the text (pattern, binary or key) it names
Err(kind, msg, name, text) ==
    [ok |-> FALSE, kind |-> kind, msg |-> msg, name |-> name, text |-> text]

DENY_PATTERNS ==
    << <<" ","r","m"," ">>,
       <<" ","m","k","f","s">>,
       <<" ","d","d"," ">>,
       <<" ",":","(",")","{",":","|",":","&","}",";",":">>,
       <<"s","h","u","t","d","o","w","n">>,
       <<"r","e","b","o","o","t">>,
       <<"i","p","t","a","b","l","e","s">>,
       <<"s","y","s","c","t","l"," ","-","w"," ">>,
       <<"c","h","o","w","n"," ">>,
       <<"c","h","m","o","d"," ">> >>

\* a mutation: the command is not lower-cased before the containment test
static_audit_nolower(exec_cmd) ==
    LET low == <<" ">> \o exec_cmd \o <<" ">>
        hits == {i \in 1..Len(DENY_PATTERNS) : Contains(DENY_PATTERNS[i], low)}
    IN  IF hits = {} THEN Ok
        ELSE Err("audit", "Denied pattern in cmd", None, Strip(DENY_PATTERNS[CHOOSE i \in hits : \A j \in hits : i <= j]))

\* static_audit: the first deny pattern contained in " cmd ".lower()
static_audit(exec_cmd) ==
    LET low == Lower(<<" ">> \o exec_cmd \o <<" ">>)
        hits == {i \in 1..Len(DENY_PATTERNS) : Contains(DENY_PATTERNS[i], low)}
    IN  IF hits = {} THEN Ok
        ELSE Err("audit", "Denied pattern in cmd", None, Strip(DENY_PATTERNS[CHOOSE i \in hits : \A j \in hits : i <= j]))

\* index of the first element of 1..n that satisfies Bad, 0 when none does
FirstIndex(n, Bad(_)) ==
    IF \E i \in 1..n : Bad(i)
    THEN CHOOSE i \in 1..n : Bad(i) /\ \A j \in 1..(i - 1) : ~Bad(j)
    ELSE 0

\* a mutation: the sudo check comes before the read_only check
GateStep_sudofirst(dsl, s, catalog) ==
    IF s.action \notin DOMAIN catalog.actions
    THEN Err("policy", "Unknown action", s.action, <<>>)
    ELSE LET a == catalog.actions[s.action]
             text == TemplateText(a.cmd)
             toks == Split(text)
             allowed == catalog.profiles[dsl.profile].allow_sudo
             bin_path == IF StartsWith(text, SUDO) /\ Len(toks) >= 3 THEN toks[3] ELSE <<>>
         IN  IF a.requires_sudo /\ bin_path \notin allowed
             THEN Err("policy", "sudo binary not allowed", s.action, bin_path)
             ELSE IF ~a.read_only
                  THEN Err("policy", "is not read-only", s.action, <<>>)
                  ELSE Ok

\* the body of policy_gate's loop for one step
GateStep(dsl, s, catalog) ==
    IF s.action \notin DOMAIN catalog.actions
    THEN Err("policy", "Unknown action", s.action, <<>>)
    ELSE LET a == catalog.actions[s.action]
             text == TemplateText(a.cmd)
             toks == Split(text)
             allowed == catalog.profiles[dsl.profile].allow_sudo
         IN  IF ~a.read_only
             THEN Err("policy", "is not read-only", s.action, <<>>)
             ELSE IF ~a.requires_sudo THEN Ok
             ELSE IF StartsWith(text, SUDO) /\ Len(toks) < 3
                  THEN Err("policy", "list index out of range", s.action, <<>>)
                  ELSE LET bin_path == IF StartsWith(text, SUDO) THEN toks[3] ELSE <<>>
                       IN  IF bin_path \notin allowed
                           THEN Err("policy", "sudo binary not allowed", s.action, bin_path)
                           ELSE Ok

\* a mutation: the read_only flag of the action is not looked at
policy_gate_anyaction(dsl, catalog) ==
    IF dsl.profile \notin DOMAIN catalog.profiles
    THEN Err("policy", "Unknown profile", dsl.profile, <<>>)
    ELSE LET bad == FirstIndex(Len(dsl.steps),
                       LAMBDA i : dsl.steps[i].action \notin DOMAIN catalog.actions)
         IN  IF bad = 0 THEN Ok ELSE GateStep(dsl, dsl.steps[bad], catalog)

\* a mutation: the gate also holds the steps to the profile's max_timeout_s
policy_gate_timeouts(dsl, catalog) ==
    IF dsl.profile \notin DOMAIN catalog.profiles
    THEN Err("policy", "Unknown profile", dsl.profile, <<>>)
    ELSE LET bad == FirstIndex(Len(dsl.steps),
                       LAMBDA i : ~GateStep(dsl, dsl.steps[i], catalog).ok)
             slow == FirstIndex(Len(dsl.steps),
                       LAMBDA i : dsl.steps[i].timeout_s
                                     > catalog.profiles[dsl.profile].max_timeout_s)
         IN  IF bad # 0 THEN GateStep(dsl, dsl.steps[bad], catalog)
             ELSE IF slow # 0 THEN Err("policy", "timeout", dsl.steps[slow].action, <<>>)
             ELSE Ok

policy_gate(dsl, catalog) ==
    IF dsl.profile \notin DOMAIN catalog.profiles
    THEN Err("policy", "Unknown profile", dsl.profile, <<>>)
    ELSE LET bad == FirstIndex(Len(dsl.steps),
                       LAMBDA i : ~GateStep(dsl, dsl.steps[i], catalog).ok)
         IN  IF bad = 0 THEN Ok ELSE GateStep(dsl, dsl.steps[bad], catalog)

\* fmt_vars = {**step.args, "host": dsl.target.host}
FmtVars(dsl, step) ==
    [k \in DOMAIN step.args \cup {"host"} |->
        IF k = "host" THEN dsl.host ELSE step.args[k]]

\* cmd_tpl.format(**fmt_vars): the placeholders whose key is absent
MissingKeys(tpl, fmt) ==
    {i \in 1..Len(tpl) : "ph" \in DOMAIN tpl[i] /\ tpl[i].ph \notin DOMAIN fmt}

Render(tpl, fmt) ==
    Concat([i \in 1..Len(tpl) |->
              IF "lit" \in DOMAIN tpl[i] THEN tpl[i].lit ELSE fmt[tpl[i].ph]])

\* a mutation: the smaller of the two is not taken
Min_first(a, b) == a

Min(a, b) == IF a <= b THEN a ELSE b

\* a mutation: a placeholder without a value is rendered as the empty text
CompileStep_lenient(dsl, step, catalog) ==
    IF step.action \notin DOMAIN catalog.actions
    THEN Err("compile", "Unknown action", step.action, <<>>)
    ELSE LET entry == catalog.actions[step.action]
             fmt == FmtVars(dsl, step)
         IN  [ok |-> TRUE,
              step |-> [id |-> step.id,
                        cmd |-> Concat([i \in 1..Len(entry.cmd) |->
                                   IF "lit" \in DOMAIN entry.cmd[i] THEN entry.cmd[i].lit
                                   ELSE IF entry.cmd[i].ph \in DOMAIN fmt
                                        THEN fmt[entry.cmd[i].ph] ELSE <<>>]),
                        timeout_s |-> Min(step.timeout_s,
                                          catalog.profiles[dsl.profile].max_timeout_s),
                        parser |-> IF step.parser # None THEN step.parser
                                   ELSE entry.parser,
                        validator |-> step.validator]]

\* the body of compile_plan's loop for one step: an error, or the ExecStep
CompileStep(dsl, step, catalog) ==
    IF step.action \notin DOMAIN catalog.actions
    THEN Err("compile", "Unknown action", step.action, <<>>)
    ELSE LET entry == catalog.actions[step.action]
             fmt == FmtVars(dsl, step)
             miss == MissingKeys(entry.cmd, fmt)
         IN  IF miss # {}
             THEN Err("compile", "Missing arg", step.action,
                      <<entry.cmd[CHOOSE i \in miss : \A j \in miss : i <= j].ph>>)
             ELSE [ok |-> TRUE,
                   step |-> [id |-> step.id,
                             cmd |-> Render(entry.cmd, fmt),
                             timeout_s |-> Min(step.timeout_s,
                                               catalog.profiles[dsl.profile].max_timeout_s),
                             parser |-> IF step.parser # None THEN step.parser
                                        ELSE entry.parser,
                             validator |-> step.validator]]

\* compile_plan: the first failing step's error, or the plan
compile_plan(dsl, catalog) ==
    LET bad == FirstIndex(Len(dsl.steps),
                          LAMBDA i : ~CompileStep(dsl, dsl.steps[i], catalog).ok)
    IN  IF bad # 0 THEN CompileStep(dsl, dsl.steps[bad], catalog)
        ELSE [ok |-> TRUE,
              plan |-> [i \in 1..Len(dsl.steps) |->
                           CompileStep(dsl, dsl.steps[i], catalog).step]]

\* the audit loop of submit_job: static_audit on every step of the plan
AuditPlan(plan) ==
    LET bad == FirstIndex(Len(plan), LAMBDA i : ~static_audit(plan[i].cmd).ok)
    IN  IF bad = 0 THEN Ok ELSE static_audit(plan[bad].cmd)

\* ToDoDSL(**payload): pydantic validation of the payload
\* models.Status
Status == {"QUEUED", "PRECHECKS", "EXECUTING", "POSTCHECKS", "JUDGING", "DONE", "FAILED"}
ProfileLiteral == {"verify_readonly", "extended_verify"}
SchemaCheck(payload) ==
    IF payload.job_id = None \/ payload.host = None
       \/ payload.profile \notin ProfileLiteral
    THEN Err("schema", "Invalid DSL payload", None, <<>>)
    ELSE Ok

\* the synchronous stages shared by submit_job and the agent tool, in order
Preflight(payload) ==
    IF ~SchemaCheck(payload).ok THEN SchemaCheck(payload)
    ELSE IF ~policy_gate(payload, Catalog).ok THEN policy_gate(payload, Catalog)
    ELSE IF ~compile_plan(payload, Catalog).ok THEN compile_plan(payload, Catalog)
    ELSE IF ~AuditPlan(compile_plan(payload, Catalog).plan).ok
         THEN AuditPlan(compile_plan(payload, Catalog).plan)
         ELSE compile_plan(payload, Catalog)

(***************************************************************************)
(* Python values that the judgement handles                                *)
(***************************************************************************)
PyNone       == [t |-> "none",  n |-> 0, s |-> <<>>]
PyInt(n)     == [t |-> "int",   n |-> n, s |-> <<>>]
PyFloat(h)   == [t |-> "float", n |-> h, s |-> <<>>]   \* h: the value in hundredths
PyStr(s)     == [t |-> "str",   n |-> 0, s |-> s]
PyList(l)    == [t |-> "list",  n |-> 0, s |-> l]
PyBool(b)    == [t |-> "bool",  n |-> IF b THEN 1 ELSE 0, s |-> <<>>]

IsNumber(v)  == v.t \in {"int", "float", "bool"}
\* the number in hundredths
Hundredths(v) == IF v.t = "float" THEN v.n ELSE v.n * 100
\* bool(v)
Truthy(v) == IF v.t \in {"str", "list"} THEN v.s # <<>> ELSE v.n # 0

\* d.get(k, default)
Get(d, k, default) == IF k \in DOMAIN d THEN d[k] ELSE default
\* a or b
PyOr(a, b) == IF Truthy(a) THEN a ELSE b

Abs(x) == IF x < 0 THEN -x ELSE x

(***************************************************************************)
(* parsers.py                                                              *)
(***************************************************************************)
Digits == <<"0","1","2","3","4","5","6","7","8","9">>
IsDigit(c) == \E i \in 1..10 : Digits[i] = c
DigitVal(c) == (CHOOSE i \in 1..10 : Digits[i] = c) - 1
\* str.isdigit()
AllDigits(s) == s # <<>> /\ \A i \in 1..Len(s) : IsDigit(s[i])
RECURSIVE ToInt(_)
ToInt(s) == IF s = <<>> THEN 0 ELSE ToInt(SubSeq(s, 1, Len(s) - 1)) * 10 + DigitVal(s[Len(s)])

MEMTOTAL == <<"M","e","m","T","o","t","a","l",":">>
KB       == <<"k","B">>

\* the first index from i on whose character does not satisfy P (Len + 1 when
\* the run reaches the end)
RunEnd(text, i, P(_)) ==
    CHOOSE k \in i..(Len(text) + 1) :
        /\ k = Len(text) + 1 \/ ~P(text[k])
        /\ \A m \in i..(k - 1) : P(text[m])

\* MemTotal:\s+(\d+)\s+kB matched at position i: the digit group, <<>> when
\* there is no match there (each run is maximal: a shorter one is followed by
\* a character of the same class, which the next element of the pattern rejects)
MemMatchAt(text, i) ==
    LET s1 == i + Len(MEMTOTAL)
        d1 == RunEnd(text, s1, IsSpace)
        d2 == RunEnd(text, d1, IsDigit)
        k  == RunEnd(text, d2, IsSpace)
    IN  IF /\ SubSeq(text, i, s1 - 1) = MEMTOTAL
           /\ d1 > s1 /\ d2 > d1 /\ k > d2
           /\ SubSeq(text, k, k + 1) = KB
        THEN SubSeq(text, d1, d2 - 1)
        ELSE <<>>

\* round(kb / 1024**2, 2) in hundredths, ties to the even hundredth
\* (whole GiB and the rest are taken apart so that no product leaves 32 bits)
RoundGib(kb) ==
    LET q == (kb \div 1048576) * 100 + ((kb % 1048576) * 100) \div 1048576
        r == ((kb % 1048576) * 100) % 1048576
    IN  IF r * 2 > 1048576 \/ (r * 2 = 1048576 /\ q % 2 = 1) THEN q + 1 ELSE q

\* parse_meminfo: re.search takes the leftmost match
parse_meminfo(text) ==
    LET at == {i \in 1..(Len(text) - Len(MEMTOTAL)) : MemMatchAt(text, i) # <<>>}
    IN  IF at = {} THEN [total_gib |-> PyFloat(0)]
        ELSE [total_gib |->
                PyFloat(RoundGib(ToInt(MemMatchAt(text, CHOOSE i \in at : \A j \in at : i <= j))))]

PASSED == <<"p","a","s","s","e","d">>
\* parse_smart: "PASSED" in text.upper()
parse_smart(text) == [smart_pass |-> PyBool(Contains(PASSED, Lower(text)))]

(***************************************************************************)
(* parse_dmidecode and _parse_memdev_block                                 *)
(***************************************************************************)
MEMORY_DEVICE == <<"M","e","m","o","r","y"," ","D","e","v","i","c","e">>
K_SIZE    == <<"S","i","z","e">>
K_CSPEED  == <<"C","o","n","f","i","g","u","r","e","d"," ","M","e","m","o","r","y"," ","S","p","e","e","d">>
K_SPEED   == <<"S","p","e","e","d">>
K_TYPE    == <<"T","y","p","e">>
K_LOCATOR == <<"L","o","c","a","t","o","r">>
K_BANK    == <<"B","a","n","k"," ","L","o","c","a","t","o","r">>
K_ECC     == <<"E","r","r","o","r"," ","C","o","r","r","e","c","t","i","o","n"," ","T","y","p","e">>
NO_MODULE == <<"n","o"," ","m","o","d","u","l","e">>
ECC_TYPES == { <<"s","i","n","g","l","e","-","b","i","t"," ","e","c","c">>,
               <<"m","u","l","t","i","-","b","i","t"," ","e","c","c">>,
               <<"m","u","l","t","i","-","b","i","t",","," ","s","i","n","g","l","e","-","b","i","t"," ","e","c","c">>,
               <<"e","c","c">> }

\* s.split(sep): the pieces between the occurrences of the character sep
RECURSIVE SplitOn(_, _, _, _)
SplitOn(s, sep, cur, acc) ==
    IF s = <<>> THEN Append(acc, cur)
    ELSE IF s[1] = sep THEN SplitOn(Tail(s), sep, <<>>, Append(acc, cur))
         ELSE SplitOn(Tail(s), sep, Append(cur, s[1]), acc)

\* float(a) succeeds: [sign] digits [. digits], a digit on one side at least
\* (exponents, inf and nan are outside the alphabet used here)
IsFloatLit(a) ==
    LET b == IF a # <<>> /\ a[1] \in {"-", "+"} THEN Tail(a) ELSE a
        parts == SplitOn(b, ".", <<>>, <<>>)
    IN  /\ Len(parts) \in {1, 2}
        /\ \A i \in 1..Len(parts) : parts[i] = <<>> \/ AllDigits(parts[i])
        /\ \E i \in 1..Len(parts) : parts[i] # <<>>

\* float(a) in hundredths (digits after the second decimal are dropped)
FloatVal(a) ==
    LET neg == a # <<>> /\ a[1] = "-"
        b == IF a # <<>> /\ a[1] \in {"-", "+"} THEN Tail(a) ELSE a
        parts == SplitOn(b, ".", <<>>, <<>>)
        frac == IF Len(parts) = 2 THEN parts[2] ELSE <<>>
        f2 == SubSeq(frac \o <<"0","0">>, 1, 2)
        h == ToInt(parts[1]) * 100 + ToInt(f2)
    IN  IF neg THEN -h ELSE h

\* text.splitlines() (the line ends of the texts here are "\n")
SplitLines(text) ==
    LET ps == SplitOn(text, "\n", <<>>, <<>>)
    IN  IF ps[Len(ps)] = <<>> THEN SubSeq(ps, 1, Len(ps) - 1) ELSE ps

\* the value of a string expression: it raised, or it is None, or it is s
StrRaised == [raised |-> TRUE,  none |-> FALSE, s |-> <<>>]
StrNone   == [raised |-> FALSE, none |-> TRUE,  s |-> <<>>]
StrVal(s) == [raised |-> FALSE, none |-> FALSE, s |-> s]

\* get(k): next((l.split(":", 1)[1].strip() for l in lines
\*               if l.strip().startswith(k)), None)
\* the first line that starts with k is split; without a ":" the index 1
\* is out of range
MemdevGet(lines, k) ==
    LET hits == {i \in 1..Len(lines) : StartsWith(Strip(lines[i]), k)}
    IN  IF hits = {} THEN StrNone
        ELSE LET l == lines[CHOOSE i \in hits : \A j \in hits : i <= j]
             IN  IF ~Contains(<<":">>, l) THEN StrRaised
                 ELSE LET c == CHOOSE i \in 1..Len(l) :
                                  l[i] = ":" /\ \A j \in 1..(i - 1) : l[j] # ":"
                      IN  StrVal(Strip(SubSeq(l, c + 1, Len(l))))

\* get(k1) or get(k2) or "" (k2 = <<>>: get(k1) or "")
MemdevGetOr(lines, k1, k2) ==
    LET a == MemdevGet(lines, k1)
    IN  IF a.raised THEN StrRaised
        ELSE IF ~a.none /\ a.s # <<>> THEN a
        ELSE IF k2 = <<>> THEN StrVal(<<>>)
        ELSE LET b == MemdevGet(lines, k2)
             IN  IF b.raised THEN StrRaised
                 ELSE IF ~b.none /\ b.s # <<>> THEN b ELSE StrVal(<<>>)

\* to_gib(s) in thousandths of a GiB, -1 for None: the first word as a float,
\* divided by 1024 and rounded to two decimals when the text holds "MB",
\* as it is when the text holds "GB" (the sizes here are whole numbers)
to_gib(s) ==
    LET w == Split(s)
    IN  IF Contains(<<"M","B">>, s)
        THEN IF ~IsFloatLit(w[1]) THEN -1
             ELSE LET h == FloatVal(w[1])
                      q == h \div 1024
                      r == h % 1024
                  IN  10 * (IF r * 2 > 1024 \/ (r * 2 = 1024 /\ q % 2 = 1)
                            THEN q + 1 ELSE q)
        ELSE IF Contains(<<"G","B">>, s)
        THEN IF ~IsFloatLit(w[1]) THEN -1 ELSE 10 * FloatVal(w[1])
        ELSE -1

\* to_mt(s): int(re.search(r"(\d+)", s).group(1)), -1 for None
to_mt(s) ==
    LET at == {i \in 1..Len(s) : IsDigit(s[i])}
    IN  IF at = {} THEN -1
        ELSE LET i == CHOOSE i \in at : \A j \in at : i <= j
             IN  ToInt(SubSeq(s, i, RunEnd(s, i, IsDigit) - 1))

\* _parse_memdev_block(lines): it raised, or returned None, or the dict d
\* (the type is read and kept out of the dict here: no validator reads it)
parse_memdev_block(lines) ==
    LET size  == MemdevGet(lines, K_SIZE)
        speed == MemdevGetOr(lines, K_CSPEED, K_SPEED)
        typ   == MemdevGetOr(lines, K_TYPE, <<>>)
        loc   == MemdevGetOr(lines, K_LOCATOR, K_BANK)
        ecc   == MemdevGetOr(lines, K_ECC, <<>>)
        NoDict == [k \in {} |-> 0]
    IN  IF size.raised THEN [raised |-> TRUE, none |-> FALSE, d |-> NoDict]
        ELSE IF size.none \/ size.s = <<>> \/ StartsWith(Lower(size.s), NO_MODULE)
        THEN [raised |-> FALSE, none |-> TRUE, d |-> NoDict]
        ELSE IF speed.raised \/ typ.raised \/ loc.raised \/ ecc.raised
        THEN [raised |-> TRUE, none |-> FALSE, d |-> NoDict]
        ELSE [raised |-> FALSE, none |-> FALSE,
              d |-> [slot |-> loc.s, size_gib |-> to_gib(size.s),
                     speed_mt |-> to_mt(speed.s),
                     ecc |-> Lower(ecc.s) \in ECC_TYPES]]

\* the blocks of parse_dmidecode: the lines before the first "Memory Device"
\* line when there are any, and then one block from each such line on
MemdevBlocks(lines) ==
    LET heads == {i \in 1..Len(lines) : StartsWith(Strip(lines[i]), MEMORY_DEVICE)}
        starts == IF lines = <<>> THEN {} ELSE heads \cup {1}
        EndOf(i) == IF \E j \in starts : j > i
                    THEN (CHOOSE j \in starts : j > i /\ \A m \in starts : m > i => j <= m) - 1
                    ELSE Len(lines)
        RECURSIVE From(_)
        From(i) == <<SubSeq(lines, i, EndOf(i))>>
                      \o (IF EndOf(i) = Len(lines) THEN <<>> ELSE From(EndOf(i) + 1))
    IN  IF lines = <<>> THEN <<>> ELSE From(1)

\* parse_dmidecode(text) raises: one of its blocks does
parse_dmidecode_raises(text) ==
    LET blocks == MemdevBlocks(SplitLines(text))
    IN  \E i \in 1..Len(blocks) : parse_memdev_block(blocks[i]).raised

\* parse_dmidecode(text) when it returns: {"dimms": [s for s in slots if s]}
parse_dmidecode(text) ==
    LET blocks == MemdevBlocks(SplitLines(text))
        slots == [i \in 1..Len(blocks) |-> parse_memdev_block(blocks[i])]
        kept == SelectSeq(slots, LAMBDA b : ~b.none)
    IN  [dimms |-> PyList([i \in 1..Len(kept) |-> kept[i].d])]

\* runner.PARSERS
PARSERS ==
    {"parse_meminfo", "parse_dmidecode", "parse_ethtool", "parse_ethtool_stats",
     "parse_sysfs_nic", "parse_smart", "parse_ipmi_psu", "parse_ipmi_fans",
     "parse_ipmi_thermal", "parse_dmesg", "parse_os_release"}

\* parser_fn(rr.stdout) raises
ParseRaises(parser, stdout) ==
    parser = "parse_dmidecode" /\ parse_dmidecode_raises(stdout)

\* a mutation: a name that is not registered is looked up as PARSERS[name]
ParseRaises_lookup(parser, stdout) ==
    \/ parser = "parse_dmidecode" /\ parse_dmidecode_raises(stdout)
    \/ parser # None /\ parser \notin PARSERS

\* parser_fn(rr.stdout) if parser_fn else {"raw_len": len(rr.stdout)}, when
\* the parser returns
\* (the parsers that no action of the catalog above selects are not reached)
ParseStep(parser, stdout) ==
    IF parser # None /\ parser \in PARSERS
    THEN CASE parser = "parse_meminfo"   -> parse_meminfo(stdout)
           [] parser = "parse_smart"     -> parse_smart(stdout)
           [] parser = "parse_dmidecode" -> parse_dmidecode(stdout)
    ELSE [raw_len |-> PyInt(Len(stdout))]

(***************************************************************************)
(* Python floats: IEEE 754 binary64, round to nearest, ties to even.       *)
(* A float is sign, odd mantissa m and exponent e: the number m * 2^e.     *)
(* Mantissas are natural numbers of any size, kept as sequences of limbs   *)
(* in base 2^15, lowest limb first.  Exponent overflow and subnormal       *)
(* numbers do not occur with the magnitudes used (GiB and percent).        *)
(***************************************************************************)
LIMB_BITS == 15
BASE == 32768
MANT_BITS == 53

\* F applied to the value of v (of v and w), which is computed once
Once(v, F(_)) == CHOOSE r \in {F(x) : x \in {v}} : TRUE
Once2(v, w, F(_, _)) == CHOOSE r \in {F(x, y) : x \in {v}, y \in {w}} : TRUE

RECURSIVE Pow2(_)
Pow2(n) == IF n = 0 THEN 1 ELSE 2 * Pow2(n - 1)

RECURSIVE GCD(_, _)
GCD(a, b) == IF b = 0 THEN a ELSE Once(a % b, LAMBDA r : GCD(b, r))

RECURSIVE BNat(_)
BNat(n) == IF n = 0 THEN <<>> ELSE <<n % BASE>> \o BNat(n \div BASE)

RECURSIVE BTrim(_)
BTrim(a) == IF a # <<>> /\ a[Len(a)] = 0 THEN BTrim(SubSeq(a, 1, Len(a) - 1)) ELSE a

BLimb(a, i) == IF i <= Len(a) THEN a[i] ELSE 0

RECURSIVE BAddFrom(_, _, _, _)
BAddFrom(a, b, i, c) ==
    IF i > Len(a) /\ i > Len(b) THEN (IF c = 0 THEN <<>> ELSE <<c>>)
    ELSE Once(BLimb(a, i) + BLimb(b, i) + c,
              LAMBDA t : <<t % BASE>> \o BAddFrom(a, b, i + 1, t \div BASE))
BAdd(a, b) == Once2(a, b, LAMBDA x, y : BAddFrom(x, y, 1, 0))

\* a - b for a >= b
RECURSIVE BSubFrom(_, _, _, _)
BSubFrom(a, b, i, c) ==
    IF i > Len(a) THEN <<>>
    ELSE Once(a[i] - BLimb(b, i) - c,
              LAMBDA t : IF t < 0 THEN <<t + BASE>> \o BSubFrom(a, b, i + 1, 1)
                         ELSE <<t>> \o BSubFrom(a, b, i + 1, 0))
BSub(a, b) == Once2(a, b, LAMBDA x, y : BTrim(BSubFrom(x, y, 1, 0)))

\* -1, 0 or 1 as a is below, equal to or above b
RECURSIVE BCmpAt(_, _, _)
BCmpAt(a, b, i) ==
    IF i = 0 THEN 0
    ELSE IF a[i] > b[i] THEN 1
    ELSE IF a[i] < b[i] THEN -1
    ELSE BCmpAt(a, b, i - 1)
BCmp(a, b) ==
    Once2(a, b, LAMBDA x, y :
        IF Len(x) > Len(y) THEN 1
        ELSE IF Len(x) < Len(y) THEN -1
        ELSE BCmpAt(x, y, Len(x)))

RECURSIVE BMulSmallFrom(_, _, _, _)
BMulSmallFrom(a, k, i, c) ==
    IF i > Len(a) THEN (IF c = 0 THEN <<>> ELSE <<c>>)
    ELSE Once(a[i] * k + c,
              LAMBDA t : <<t % BASE>> \o BMulSmallFrom(a, k, i + 1, t \div BASE))
BMulSmall(a, k) ==
    Once2(a, k, LAMBDA x, y : IF y = 0 THEN <<>> ELSE BMulSmallFrom(x, y, 1, 0))

BShiftLimbs(a, n) ==
    Once(a, LAMBDA x : IF x = <<>> THEN <<>> ELSE [i \in 1..n |-> 0] \o x)

RECURSIVE BMulFrom(_, _, _)
BMulFrom(a, b, i) ==
    IF i > Len(b) THEN <<>>
    ELSE BAdd(BShiftLimbs(BMulSmall(a, b[i]), i - 1), BMulFrom(a, b, i + 1))
BMul(a, b) == Once2(a, b, LAMBDA x, y : BMulFrom(x, y, 1))

\* a * 2^k
BMulPow2(a, k) ==
    Once(k, LAMBDA j :
        BShiftLimbs(BMulSmall(a, Pow2(j % LIMB_BITS)), j \div LIMB_BITS))

RECURSIVE Bits(_)
Bits(n) == IF n = 0 THEN 0 ELSE 1 + Bits(n \div 2)
BBits(a) ==
    Once(a, LAMBDA x :
        IF x = <<>> THEN 0 ELSE LIMB_BITS * (Len(x) - 1) + Bits(x[Len(x)]))
BIsOdd(a) == Once(a, LAMBDA x : x # <<>> /\ x[1] % 2 = 1)

RECURSIVE TrailingZeros(_)
TrailingZeros(n) == IF n % 2 = 1 THEN 0 ELSE 1 + TrailingZeros(n \div 2)
RECURSIVE ZeroLimbs(_)
ZeroLimbs(a) == IF a[1] = 0 THEN 1 + ZeroLimbs(Tail(a)) ELSE 0

\* a \div 2^t for t < LIMB_BITS
BShr(a, t) ==
    Once2(a, t, LAMBDA x, u :
        BTrim([i \in 1..Len(x) |->
                  (x[i] \div Pow2(u)) + (BLimb(x, i + 1) % Pow2(u)) * Pow2(LIMB_BITS - u)]))

\* a # 0 as m * 2^k with m odd
BOddPart(a) ==
    Once(a, LAMBDA x :
    Once(ZeroLimbs(x), LAMBDA z :
    Once(SubSeq(x, z + 1, Len(x)), LAMBDA b :
    Once(TrailingZeros(b[1]), LAMBDA t :
        [m |-> BShr(b, t), k |-> LIMB_BITS * z + t]))))

\* <<d, 2d, 4d, ...>> of length n
RECURSIVE DoublesOf(_, _)
DoublesOf(acc, n) ==
    IF Len(acc) = n THEN acc
    ELSE Once(Append(acc, BAdd(acc[Len(acc)], acc[Len(acc)])),
              LAMBDA next : DoublesOf(next, n))

\* bits hi..lo of the quotient of r by ds[1] (as a number), and the
\* remainder, for r below ds[hi] * 2
RECURSIVE DivRange(_, _, _, _)
DivRange(r, ds, hi, lo) ==
    IF hi = lo
    THEN IF BCmp(r, ds[hi]) >= 0
         THEN [q |-> BMulPow2(<<1>>, hi - 1), r |-> BSub(r, ds[hi])]
         ELSE [q |-> <<>>, r |-> r]
    ELSE Once((hi + lo) \div 2, LAMBDA mid :
         Once(DivRange(r, ds, hi, mid + 1), LAMBDA top :
         Once(DivRange(top.r, ds, mid, lo), LAMBDA bot :
             [q |-> BAdd(top.q, bot.q), r |-> bot.r])))

\* quotient and remainder of n by a d of many limbs, for a quotient below
\* 2^MANT_BITS
BDivModLong(n, d) ==
    Once2(n, DoublesOf(<<d>>, MANT_BITS), LAMBDA x, ds : DivRange(x, ds, MANT_BITS, 1))

\* quotient and remainder of limbs i..1 of n, after remainder rem, by d < BASE
RECURSIVE DivSmallFrom(_, _, _, _)
DivSmallFrom(n, d, i, rem) ==
    IF i = 0 THEN [q |-> <<>>, r |-> rem]
    ELSE Once(rem * BASE + n[i], LAMBDA t :
         Once(DivSmallFrom(n, d, i - 1, t % d), LAMBDA rest :
             [q |-> Append(rest.q, t \div d), r |-> rest.r]))

\* quotient and remainder of n by d
BDivMod(n, d) ==
    Once2(n, d, LAMBDA x, y :
        IF Len(y) = 1
        THEN Once(DivSmallFrom(x, y[1], Len(x), 0),
                  LAMBDA z : [q |-> BTrim(z.q), r |-> BNat(z.r)])
        ELSE BDivModLong(x, y))

\* n \div 2^j
BShrBits(n, j) ==
    Once2(n, j, LAMBDA x, i :
        IF i \div LIMB_BITS >= Len(x) THEN <<>>
        ELSE BShr(SubSeq(x, (i \div LIMB_BITS) + 1, Len(x)), i % LIMB_BITS))

FZero == [neg |-> FALSE, m |-> <<>>, e |-> 0]

\* the float whose value is exactly n * 2^s
FExact(neg, n, s) ==
    Once(n, LAMBDA x :
        IF x = <<>> THEN FZero
        ELSE Once(BOddPart(x), LAMBDA o : [neg |-> neg, m |-> o.m, e |-> s + o.k]))

\* (n / d) * 2^k for k >= 0 rounded to the nearest integer, ties to even
RoundUp(n, d, k) ==
    Once(BDivMod(BMulPow2(n, k), d), LAMBDA qr :
    Once(BCmp(BAdd(qr.r, qr.r), d), LAMBDA c :
        IF c > 0 \/ (c = 0 /\ BIsOdd(qr.q)) THEN BAdd(qr.q, <<1>>) ELSE qr.q))

\* (n / d) / 2^j for j > 0 rounded to the nearest integer, ties to even
RoundDown(n, d, j) ==
    Once(BShrBits(n, j), LAMBDA top :
    Once(BSub(n, BMulPow2(top, j)), LAMBDA low :
    Once(BDivMod(top, d), LAMBDA qr :
    \* the part cut off is (qr.r * 2^j + low) / (d * 2^j)
    Once(BAdd(BMulPow2(qr.r, j), low), LAMBDA x :
    Once(BCmp(BAdd(x, x), BMulPow2(d, j)), LAMBDA c :
        IF c > 0 \/ (c = 0 /\ BIsOdd(qr.q)) THEN BAdd(qr.q, <<1>>) ELSE qr.q)))))

\* (n / d) * 2^k rounded to the nearest integer, ties to even
RoundQuotient(n, d, k) == IF k >= 0 THEN RoundUp(n, d, k) ELSE RoundDown(n, d, -k)

\* the float nearest to (n / d) * 2^s for odd n and d
FRoundOdd(neg, n, d, s) ==
    IF d = <<1>> /\ BBits(n) <= MANT_BITS
    THEN [neg |-> neg, m |-> n, e |-> s]
    ELSE \* (n / d) * 2^k is between 2^(MANT_BITS-1) and 2^(MANT_BITS+1)
         Once(MANT_BITS - (BBits(n) - BBits(d)), LAMBDA k :
         Once(BCmp(IF k >= 0 THEN BMulPow2(n, k) ELSE n,
                   BMulPow2(d, MANT_BITS + (IF k < 0 THEN -k ELSE 0))) >= 0,
              LAMBDA wide :
         Once(IF wide THEN k - 1 ELSE k, LAMBDA k2 :
             FExact(neg, RoundQuotient(n, d, k2), s - k2))))

\* the float nearest to (n / d) * 2^s, ties to the even mantissa
FRound(neg, n, d, s) ==
    Once2(n, d, LAMBDA x, y :
        IF x = <<>> THEN FZero
        ELSE Once2(BOddPart(x), BOddPart(y), LAMBDA no, do :
                 FRoundOdd(neg, no.m, do.m, s + no.k - do.k)))

\* float(n) of an int, and the float of a decimal literal h / 100
FromInt(n) == FExact(n < 0, BNat(Abs(n)), 0)
FromHundredths(h) ==
    IF h = 0 THEN FZero
    ELSE Once(GCD(Abs(h), 100), LAMBDA g :
             FRound(h < 0, BNat(Abs(h) \div g), BNat(100 \div g), 0))

FAbs(x) == [x EXCEPT !.neg = FALSE]
FMul(x, y) ==
    Once2(x, y, LAMBDA a, b :
        FRound(a.neg # b.neg, BMul(a.m, b.m), <<1>>, a.e + b.e))
\* x / y for y # 0
FDiv(x, y) ==
    Once2(x, y, LAMBDA a, b : FRound(a.neg # b.neg, a.m, b.m, a.e - b.e))

\* x - y
FSub(x, y) ==
    Once2(x, y, LAMBDA a, b :
    Once(Min(a.e, b.e), LAMBDA emin :
    Once2(BMulPow2(a.m, a.e - emin), BMulPow2(b.m, b.e - emin), LAMBDA xs, ys :
        IF a.neg # b.neg THEN FRound(a.neg, BAdd(xs, ys), <<1>>, emin)
        ELSE IF BCmp(xs, ys) >= 0 THEN FRound(a.neg, BSub(xs, ys), <<1>>, emin)
        ELSE FRound(~a.neg, BSub(ys, xs), <<1>>, emin))))

\* -1, 0 or 1 as |x| is below, equal to or above |y|
FCmpMag(x, y) ==
    Once(Min(x.e, y.e), LAMBDA emin :
        BCmp(BMulPow2(x.m, x.e - emin), BMulPow2(y.m, y.e - emin)))

\* x <= y
FLe(x, y) ==
    Once2(x, y, LAMBDA a, b :
        IF a.m = <<>> /\ b.m = <<>> THEN TRUE
        ELSE IF a.m = <<>> THEN ~b.neg
        ELSE IF b.m = <<>> THEN a.neg
        ELSE IF a.neg # b.neg THEN a.neg
        ELSE IF a.neg THEN FCmpMag(a, b) >= 0
        ELSE FCmpMag(a, b) <= 0)

\* 100.0
HUNDRED == FromInt(100)

\* the float of a Python number
ToFloat(v) == Once(v, LAMBDA x : IF x.t = "float" THEN FromHundredths(x.n) ELSE FromInt(x.n))

(***************************************************************************)
(* validators.py: a call either raises or returns (ok, note)               *)
(***************************************************************************)
Raised == [raised |-> TRUE, ok |-> FALSE, note |-> <<"exception">>]
\* (ok, note); a note is a sequence of pieces of text
OkNote(ok, note) == [raised |-> FALSE, ok |-> ok, note |-> note]

\* total_mem_within_pct(parsed, expected_gib=16.0, pct=2.0)
total_mem_within_pct(parsed, args) ==
    LET actual == PyOr(Get(parsed, "total_gib", PyInt(0)), PyInt(0))
        expected_gib == IF Len(args) >= 1 THEN args[1] ELSE PyFloat(1600)
        pct == IF Len(args) >= 2 THEN args[2] ELSE PyFloat(200)
    IN  IF Len(args) > 2 \/ ~IsNumber(actual) \/ ~IsNumber(expected_gib) \/ ~IsNumber(pct)
        THEN Raised
        ELSE OkNote(FLe(FAbs(FSub(ToFloat(actual), ToFloat(expected_gib))),
                        FMul(ToFloat(expected_gib),
                             FDiv(ToFloat(pct), HUNDRED))),
                    <<"MemTotal vs expected">>)

\* x is below (-1), equal to (0) or above (1) the fraction n / d
FCmpRatio(x, n, d) ==
    Once(x, LAMBDA a :
        BCmp(BMulPow2(BMul(a.m, BNat(d)), IF a.e > 0 THEN a.e ELSE 0),
             BMulPow2(BNat(n), IF a.e < 0 THEN -a.e ELSE 0)))

\* round(x, 2) in hundredths, for the float x of the decimal th / 1000: the
\* float's own value is rounded, ties to even
Round2(th) ==
    LET q == th \div 10
        r == th % 10
    IN  IF r < 5 THEN q
        ELSE IF r > 5 THEN q + 1
        ELSE Once(FCmpRatio(FRound(FALSE, BNat(th), BNat(1000), 0), th, 1000),
                  LAMBDA c : IF c < 0 THEN q
                             ELSE IF c > 0 THEN q + 1
                             ELSE IF q % 2 = 0 THEN q ELSE q + 1)

\* a DIMM is a dict with some of the keys slot, size_gib (in thousandths),
\* speed_mt and ecc; a size or speed that is None is written -1
\* d.get("speed_mt")
SpeedOf(d) == IF "speed_mt" \in DOMAIN d THEN d.speed_mt ELSE -1
\* the tuple of a parsed DIMM
HaveTuple(d) ==
    <<d.slot,
      Round2(IF "size_gib" \in DOMAIN d /\ d.size_gib # -1 THEN d.size_gib ELSE 0),
      SpeedOf(d),
      "ecc" \in DOMAIN d /\ d.ecc = TRUE>>
\* the tuple of an expected DIMM
WantTuple(e) ==
    <<e.slot, Round2(e.size_gib), SpeedOf(e),
      IF "ecc" \in DOMAIN e THEN e.ecc = TRUE ELSE TRUE>>

\* all_expected_dimms(parsed, expected_dimms)
all_expected_dimms(parsed, args) ==
    IF Len(args) # 1 THEN Raised
    ELSE LET expected_dimms == args[1]
             dimms == Get(parsed, "dimms", PyList(<<>>)).s
             \* "if d": an empty dict is skipped
             full == SelectSeq(dimms, LAMBDA d : DOMAIN d # {})
         IN  IF expected_dimms.t \notin {"list", "str"} THEN Raised
             ELSE IF expected_dimms.t = "str" /\ expected_dimms.s # <<>> THEN Raised
             ELSE IF \E i \in 1..Len(full) : "slot" \notin DOMAIN full[i] THEN Raised
             ELSE IF \E i \in 1..Len(expected_dimms.s) :
                        \/ {"slot", "size_gib"} \ DOMAIN expected_dimms.s[i] # {}
                        \/ expected_dimms.s[i].size_gib = -1
                  THEN Raised
             ELSE LET e == expected_dimms.s
                      have == {HaveTuple(full[i]) : i \in 1..Len(full)}
                      missing == SelectSeq([i \in 1..Len(e) |-> i],
                                           LAMBDA i : WantTuple(e[i]) \notin have)
                  IN  OkNote(missing = <<>>,
                             IF missing = <<>> THEN <<"All DIMMs present">>
                             ELSE <<"Missing/mismatch: ">>
                                    \o [k \in 1..Len(missing) |-> e[missing[k]].slot])

\* nic_link_up(parsed)
nic_link_up(parsed, args) ==
    IF Len(args) # 0 THEN Raised
    ELSE OkNote(Get(parsed, "link", PyNone) = PyStr(<<"u","p">>), <<"Link">>)

\* nic_speed_at_least(parsed, gbps)
nic_speed_at_least(parsed, args) ==
    IF Len(args) # 1 THEN Raised
    ELSE LET sp == PyOr(Get(parsed, "speed_gbps", PyNone), PyInt(0))
         IN  IF ~IsNumber(sp) \/ ~IsNumber(args[1]) THEN Raised
             ELSE OkNote(Hundredths(sp) >= Hundredths(args[1]), <<"Speed">>)

\* nic_no_errors(parsed): no parser modelled here yields "errors"
nic_no_errors(parsed, args) ==
    IF Len(args) # 0 THEN Raised
    ELSE OkNote(Get(parsed, "errors", PyList(<<>>)).s = <<>>, <<"NIC error counters">>)

\* disk_smart_pass(parsed)
disk_smart_pass(parsed, args) ==
    IF Len(args) # 0 THEN Raised
    ELSE LET ok == Truthy(Get(parsed, "smart_pass", PyNone))
         IN  OkNote(ok, IF ok THEN <<"SMART PASSED">> ELSE <<"SMART not passed">>)

\* no_critical_logs(parsed)
no_critical_logs(parsed, args) ==
    IF Len(args) # 0 THEN Raised
    ELSE OkNote(Get(parsed, "critical", PyList(<<>>)).s = <<>>, <<"critical lines">>)

\* runner.VALIDATORS (a name is a string of one symbol)
VALIDATORS ==
    {<<"total_mem_within_pct">>, <<"all_expected_dimms">>, <<"nic_link_up">>,
     <<"nic_speed_at_least">>, <<"nic_no_errors">>, <<"disk_smart_pass">>,
     <<"no_critical_logs">>}

\* vfn(parsed, *args)
CallValidator(v_name, parsed, args) ==
    CASE v_name = <<"total_mem_within_pct">> -> total_mem_within_pct(parsed, args)
      [] v_name = <<"all_expected_dimms">>   -> all_expected_dimms(parsed, args)
      [] v_name = <<"nic_link_up">>          -> nic_link_up(parsed, args)
      [] v_name = <<"nic_speed_at_least">>   -> nic_speed_at_least(parsed, args)
      [] v_name = <<"nic_no_errors">>        -> nic_no_errors(parsed, args)
      [] v_name = <<"disk_smart_pass">>      -> disk_smart_pass(parsed, args)
      [] v_name = <<"no_critical_logs">>     -> no_critical_logs(parsed, args)

(***************************************************************************)
(* runner._parse_validator_spec                                            *)
(***************************************************************************)
RECURSIVE RStripChar(_, _)
RStripChar(s, c) ==
    IF s # <<>> /\ s[Len(s)] = c THEN RStripChar(SubSeq(s, 1, Len(s) - 1), c) ELSE s

\* the best-effort cast of one literal
CastArg(a) ==
    IF AllDigits(a) THEN PyInt(ToInt(a))
    ELSE IF IsFloatLit(a) THEN PyFloat(FloatVal(a))
    ELSE PyStr(a)

\* _parse_validator_spec: <<name, args>>
parse_validator_spec(spec) ==
    IF ~Contains(<<"(">>, spec) THEN <<spec, <<>>>>
    ELSE LET k == CHOOSE i \in 1..Len(spec) :
                      spec[i] = "(" /\ \A j \in 1..(i - 1) : spec[j] # "("
             name == SubSeq(spec, 1, k - 1)
             rest == RStripChar(SubSeq(spec, k + 1, Len(spec)), ")")
             pieces == SplitOn(rest, ",", <<>>, <<>>)
             raw_args == SelectSeq([i \in 1..Len(pieces) |-> Strip(pieces[i])],
                                   LAMBDA a : a # <<>>)
         IN  <<name, [i \in 1..Len(raw_args) |-> CastArg(raw_args[i])]>>

(***************************************************************************)
(* The judgement of _run_job_thread (and of the agent tool, which differs  *)
(* in the default of expected.total_gib only)                              *)
(***************************************************************************)
PyDict(d) == [t |-> "dict", n |-> 0, s |-> <<>>, d |-> d]

\* the context defaults of a bare validator name: [raised, args]
DefaultArgs(v_name, args, ctx, total_gib_default) ==
    IF v_name = <<"total_mem_within_pct">> /\ args = <<>>
    THEN LET first == Get(ctx, "expected_total_gib", PyNone)
             expected == Get(ctx, "expected", PyDict(<<>>))
         IN  IF Truthy(first)
             THEN [raised |-> FALSE, args |-> <<first, Get(ctx, "pct", PyInt(2))>>]
             ELSE IF expected.t # "dict"
                  THEN [raised |-> TRUE, args |-> <<>>]
                  ELSE [raised |-> FALSE,
                        args |-> <<Get(expected.d, "total_gib", total_gib_default),
                                   Get(ctx, "pct", PyInt(2))>>]
    ELSE IF v_name = <<"all_expected_dimms">> /\ args = <<>>
         THEN [raised |-> FALSE, args |-> <<Get(ctx, "expected_dimms", PyList(<<>>))>>]
         ELSE [raised |-> FALSE, args |-> args]

\* a mutation: the lookup VALIDATORS[v_name] of an unknown name raises
JudgeStep_lookupraises(step, rr, ctx, total_gib_default) ==
    LET parsed == ParseStep(step.parser, rr.stdout)
    IN  IF ParseRaises(step.parser, rr.stdout) THEN Raised
        ELSE IF step.validator = <<>>
        THEN OkNote(TRUE, <<"">>)
        ELSE LET pv == parse_validator_spec(step.validator)
                 v_name == pv[1]
             IN  IF v_name \notin VALIDATORS
                 THEN Raised
                 ELSE LET da == DefaultArgs(v_name, pv[2], ctx, total_gib_default)
                      IN  IF da.raised THEN Raised
                          ELSE CallValidator(v_name, parsed, da.args)

\* a mutation: a step whose command did not exit with 0 is not ok
JudgeStep_exitcode(step, rr, ctx, total_gib_default) ==
    LET parsed == ParseStep(step.parser, rr.stdout)
    IN  IF ParseRaises(step.parser, rr.stdout) THEN Raised
        ELSE IF rr.exit_code # 0
        THEN OkNote(FALSE, <<"exit">>)
        ELSE IF step.validator = <<>>
        THEN OkNote(TRUE, <<"">>)
        ELSE LET pv == parse_validator_spec(step.validator)
                 v_name == pv[1]
             IN  IF v_name \notin VALIDATORS
                 THEN OkNote(FALSE, <<"Unknown validator ">> \o v_name)
                 ELSE LET da == DefaultArgs(v_name, pv[2], ctx, total_gib_default)
                      IN  IF da.raised THEN Raised
                          ELSE CallValidator(v_name, parsed, da.args)

\* one iteration of the parse-and-validate loop: [raised, ok, note]
\* (a validator that is None or "" is the empty string here: both are falsy)
JudgeStep(step, rr, ctx, total_gib_default) ==
    LET parsed == ParseStep(step.parser, rr.stdout)
    IN  IF ParseRaises(step.parser, rr.stdout) THEN Raised
        ELSE IF step.validator = <<>>
        THEN OkNote(TRUE, <<"">>)
        ELSE LET pv == parse_validator_spec(step.validator)
                 v_name == pv[1]
             IN  IF v_name \notin VALIDATORS
                 THEN OkNote(FALSE, <<"Unknown validator ">> \o v_name)
                 ELSE LET da == DefaultArgs(v_name, pv[2], ctx, total_gib_default)
                      IN  IF da.raised THEN Raised
                          ELSE CallValidator(v_name, parsed, da.args)

\* a mutation: ok_all is the outcome of the first step alone
Judge_firstonly(plan, raw, ctx, total_gib_default) ==
    LET n == Min(Len(plan), Len(raw))
    IN  Once([i \in 1..n |-> JudgeStep(plan[i], raw[i], ctx, total_gib_default)],
             LAMBDA js :
        LET ok_all == n = 0 \/ js[1].ok
        IN  IF \E i \in 1..n : js[i].raised THEN [raised |-> TRUE]
            ELSE [raised |-> FALSE,
                  status |-> IF ok_all THEN "SUCCESS" ELSE "FAILED",
                  summary |-> IF ok_all THEN "All criteria passed."
                              ELSE "One or more criteria failed.",
                  per_step |-> [i \in 1..n |->
                                  [id |-> plan[i].id, ok |-> js[i].ok,
                                   notes |-> js[i].note]]])

\* a mutation: per_step is keyed by step id, a repeated id has one entry
Judge_byid(plan, raw, ctx, total_gib_default) ==
    LET n == Min(Len(plan), Len(raw))
    IN  Once([i \in 1..n |-> JudgeStep(plan[i], raw[i], ctx, total_gib_default)],
             LAMBDA js :
        LET ok_all == \A i \in 1..n : js[i].ok
            all == [i \in 1..n |->
                      [id |-> plan[i].id, ok |-> js[i].ok, notes |-> js[i].note,
                       first |-> \A k \in 1..(i - 1) : plan[k].id # plan[i].id]]
            kept == SelectSeq(all, LAMBDA x : x.first)
        IN  IF \E i \in 1..n : js[i].raised THEN [raised |-> TRUE]
            ELSE [raised |-> FALSE,
                  status |-> IF ok_all THEN "SUCCESS" ELSE "FAILED",
                  summary |-> IF ok_all THEN "All criteria passed."
                              ELSE "One or more criteria failed.",
                  per_step |-> [i \in 1..Len(kept) |->
                                  [id |-> kept[i].id, ok |-> kept[i].ok,
                                   notes |-> kept[i].notes]]])

\* the whole loop over zip(plan.steps, raw) and the VerificationResult:
\* [raised |-> TRUE] when an iteration raises
Judge(plan, raw, ctx, total_gib_default) ==
    LET n == Min(Len(plan), Len(raw))
    IN  Once([i \in 1..n |-> JudgeStep(plan[i], raw[i], ctx, total_gib_default)],
             LAMBDA js :
        LET ok_all == \A i \in 1..n : js[i].ok
        IN  IF \E i \in 1..n : js[i].raised THEN [raised |-> TRUE]
            ELSE [raised |-> FALSE,
                  status |-> IF ok_all THEN "SUCCESS" ELSE "FAILED",
                  summary |-> IF ok_all THEN "All criteria passed."
                              ELSE "One or more criteria failed.",
                  per_step |-> [i \in 1..n |->
                                  [id |-> plan[i].id, ok |-> js[i].ok,
                                   notes |-> js[i].note]]])

(***************************************************************************)
(* exec_pool.py                                                            *)
(***************************************************************************)
OUTPUT_CAP == 262144
ERR_CAP == 131072

Take(s, n) == SubSeq(s, 1, Min(Len(s), n))

TIMEOUT  == <<"T","I","M","E","O","U","T">>
CONNFAIL == <<"r","e","f","u","s","e","d">>
MEM16 == MEMTOTAL \o <<" ","1","6","7","7","7","2","1","6"," ","k","B">>

\* What the remote side does with one command: whether asyncssh.connect
\* comes back at all (shake), whether the connection is made, how long the
\* command runs (seconds), and what it returns
Completes == [shake |-> TRUE, conn |-> TRUE,  dur |-> 1, exit |-> 0, stdout |-> MEM16, stderr |-> <<>>]
Fails     == [shake |-> TRUE, conn |-> TRUE,  dur |-> 1, exit |-> 1, stdout |-> <<>>,  stderr |-> <<"e">>]
Overruns  == [shake |-> TRUE, conn |-> TRUE,  dur |-> 3, exit |-> 0, stdout |-> MEM16, stderr |-> <<>>]
\* (when the connection fails, stderr is the text of the exception)
Refuses   == [shake |-> TRUE, conn |-> FALSE, dur |-> 0, exit |-> 0, stdout |-> <<>>,  stderr |-> CONNFAIL]
RemoteOutcomes == {Completes, Fails, Overruns, Refuses}
\* the host accepts the TCP connection and never completes the handshake:
\* `async with asyncssh.connect(...)` is awaited outside asyncio.wait_for
Stalls    == [shake |-> FALSE, conn |-> FALSE, dur |-> 0, exit |-> 0, stdout |-> <<>>, stderr |-> <<>>]

RawResult(exit_code, stdout, stderr, duration_ms, truncated) ==
    [step_id |-> <<>>, exit_code |-> exit_code, stdout |-> stdout,
     stderr |-> stderr, duration_ms |-> duration_ms, truncated |-> truncated]

\* a mutation: a timeout is reported as any other failure
run_cmd_timeout255(timeout, o) ==
    IF ~o.conn THEN RawResult(255, <<>>, o.stderr, 0, FALSE)
    ELSE IF o.dur > timeout THEN RawResult(255, <<>>, TIMEOUT, timeout * 1000, FALSE)
    ELSE RawResult(o.exit, Take(o.stdout, OUTPUT_CAP), Take(o.stderr, ERR_CAP),
                   o.dur * 1000,
                   Len(o.stdout) > OUTPUT_CAP \/ Len(o.stderr) > ERR_CAP)

\* run_cmd: the RawResult for remote behaviour o under the step's timeout
run_cmd(timeout, o) ==
    IF ~o.conn THEN RawResult(255, <<>>, o.stderr, 0, FALSE)
    ELSE IF o.dur > timeout THEN RawResult(124, <<>>, TIMEOUT, timeout * 1000, FALSE)
    ELSE RawResult(o.exit, Take(o.stdout, OUTPUT_CAP), Take(o.stderr, ERR_CAP),
                   o.dur * 1000,
                   Len(o.stdout) > OUTPUT_CAP \/ Len(o.stderr) > ERR_CAP)

\* the events of execute_plan and of the verdict
StepStartEv(s)      == [t |-> "step_start", id |-> s.id, cmd |-> s.cmd]
StepResultEv(s, rr) == [t |-> "step_result", id |-> s.id, exit |-> rr.exit_code,
                        ms |-> rr.duration_ms]
VerdictEv(res)      == [t |-> "verdict", status |-> res.status, summary |-> res.summary]
PlanPreviewEv(plan) == [t |-> "plan_preview", plan |-> plan]

(***************************************************************************)
(* Submitted payloads                                                      *)
(***************************************************************************)
NoArgs == [k \in {} |-> <<>>]
NoCtx  == [k \in {} |-> PyNone]

Step(id, action, args, timeout_s, validator) ==
    [id |-> id, action |-> action, args |-> args, timeout_s |-> timeout_s,
     parser |-> None, validator |-> validator]

Payload(job_id, profile, context, steps) ==
    [job_id |-> job_id, profile |-> profile, host |-> <<"h">>,
     context |-> context, steps |-> steps]

TMWP == <<"total_mem_within_pct">>

Payloads ==
    { \* accepted: one step, validator with explicit arguments
      Payload("j1", "verify_readonly", NoCtx,
        <<Step("s1", "read_meminfo", NoArgs, 5, TMWP \o <<"(","1","6",","," ","2",")">>)>>),
      \* accepted, same job_id: two steps, the second with an unknown validator
      Payload("j1", "extended_verify", NoCtx,
        <<Step("s1", "read_file", [k \in {"path"} |-> <<"a">>], 1, <<>>),
          Step("s2", "read_meminfo", NoArgs, 2, <<"no_such">>)>>),
      \* accepted: two steps with the same id, the first with an unknown
      \* validator, the second without one
      Payload("j2", "verify_readonly", NoCtx,
        <<Step("s1", "read_meminfo", NoArgs, 1, <<"no_such","(","1",")">>),
          Step("s1", "read_meminfo", NoArgs, 1, <<>>)>>),
      \* accepted: bare validator without a context default
      Payload("j2", "verify_readonly", NoCtx,
        <<Step("s1", "read_smart", NoArgs, 1, TMWP)>>),
      \* accepted: validator with one argument too many
      Payload("j2", "verify_readonly", NoCtx,
        <<Step("s1", "read_meminfo", NoArgs, 1, <<"nic_link_up","(","1",")">>)>>),
      \* accepted: no steps at all
      Payload("j2", "verify_readonly", NoCtx, <<>>),
      \* schema: profile outside the literal
      Payload("j1", "root", NoCtx, <<Step("s1", "read_meminfo", NoArgs, 1, <<>>)>>),
      \* policy: an action that is not read_only
      Payload("j1", "verify_readonly", NoCtx,
        <<Step("s1", "flash_fw", [k \in {"img"} |-> <<"a">>], 1, <<>>)>>),
      \* policy: sudo binary not allowed for the profile
      Payload("j2", "extended_verify", NoCtx,
        <<Step("s1", "read_smart", NoArgs, 1, <<>>)>>),
      \* compile: the template's argument is missing
      Payload("j2", "verify_readonly", NoCtx,
        <<Step("s1", "read_file", NoArgs, 1, <<>>)>>),
      \* audit: the rendered command holds a deny-listed pattern
      Payload("j1", "verify_readonly", NoCtx,
        <<Step("s1", "read_file", [k \in {"path"} |-> <<"a"," ","R","m"," ","b">>], 1, <<>>)>>),
      \* schema and policy: profile outside the literal, action not read_only
      Payload("j1", "root", NoCtx,
        <<Step("s1", "flash_fw", [k \in {"img"} |-> <<"a">>], 1, <<>>)>>),
      \* policy and compile: action not read_only, its argument missing
      Payload("j2", "verify_readonly", NoCtx,
        <<Step("s1", "flash_fw", NoArgs, 1, <<>>)>>),
      \* compile and audit: a deny-listed pattern in the first command, the
      \* second template's argument missing
      Payload("j2", "verify_readonly", NoCtx,
        <<Step("s1", "read_file", [k \in {"path"} |-> <<"a"," ","R","m"," ","b">>], 1, <<>>),
          Step("s2", "read_file", NoArgs, 1, <<>>)>>) }

JobIds == {p.job_id : p \in Payloads}

(***************************************************************************)
(* State                                                                   *)
(***************************************************************************)
NumRequests  == 2
NumConsumers == 2

\* The runs explored: concurrent submissions without readers, whose commands
\* complete or overrun; one submission, on either path and with every
\* remote outcome, with concurrent readers; and concurrent submissions whose
\* commands complete, with one call of get_result; and one submission whose
\* commands complete, with one call of get_result and a restart of the process
Budgets ==
    {[nreq |-> NumRequests, ncons |-> 0, paths |-> {"runner"},
      outcomes |-> {Completes, Overruns}, nget |-> 0, ncrash |-> 0],
     [nreq |-> 1, ncons |-> NumConsumers, paths |-> {"runner", "agent"},
      outcomes |-> RemoteOutcomes, nget |-> 0, ncrash |-> 0],
     [nreq |-> NumRequests, ncons |-> 0, paths |-> {"runner"},
      outcomes |-> {Completes}, nget |-> 1, ncrash |-> 0],
     [nreq |-> 1, ncons |-> 0, paths |-> {"runner"},
      outcomes |-> {Completes}, nget |-> 1, ncrash |-> 1]}

Requests  == 1..NumRequests
Consumers == 1..NumConsumers

AGENT_HOST == <<"raspberrypi.tail56986c.ts.net">>

NoPlan   == <<>>
NoResult == [raised |-> FALSE, status |-> None, summary |-> None, per_step |-> <<>>]
NoDsl    == Payload(None, None, NoCtx, <<>>)
NoResp   == [code |-> 0, stage |-> None, job_id |-> None]
NoReq    == [pc |-> "new", path |-> None, dsl |-> NoDsl, plan |-> NoPlan,
             resp |-> NoResp]
NoBundle == [stored |-> FALSE, dsl |-> NoDsl,
             plan |-> NoPlan, result |-> NoResult]
NoExec   == [pc |-> "none", path |-> None, job_id |-> None, b |-> 0,
             dsl |-> NoDsl, plan |-> NoPlan,
             host |-> <<>>, raw |-> <<>>, result |-> NoResult,
             \* history: the commands handed to run_cmd, what the remote side
             \* did with each, and the events passed to on_event
             ran |-> <<>>, outs |-> <<>>, sent |-> <<>>]
NoConsumer == [pc |-> "idle", b |-> 0, got |-> <<>>]

Init ==
    /\ JOBS = [j \in JobIds |-> 0]
    /\ bundles = [r \in Requests |-> NoBundle]
    /\ evq = [r \in Requests |-> <<>>]
    /\ emitted = [r \in Requests |-> <<>>]
    /\ reqs = [r \in Requests |-> NoReq]
    /\ execs = [r \in Requests |-> NoExec]
    /\ streams = [r \in Requests |-> <<>>]
    /\ consumers = [c \in Consumers |-> NoConsumer]
    /\ budget \in Budgets
    /\ input = <<>>
    /\ output = [done |-> FALSE]

\* an answered request: the HTTP status (for the agent tool 200, or 400 for an
\* "error" result), the failing stage or the verdict, and the job id returned
Answered(path, code, stage, job_id) ==
    [pc |-> "answered", path |-> path, dsl |-> NoDsl, plan |-> NoPlan,
     resp |-> [code |-> code, stage |-> stage, job_id |-> job_id]]

\* the synchronous stages of every payload (they read nothing but the catalog)
PreflightOf == [p \in Payloads |-> Preflight(p)]

\* request slots are taken in order, and so are consumer slots
SlotFree(r, path) ==
    /\ reqs[r].pc = "new" /\ \A q \in 1..(r - 1) : reqs[q].pc # "new"
    /\ r <= budget.nreq /\ path \in budget.paths
ConsumerFree(c) ==
    /\ consumers[c].pc = "idle" /\ \A d \in 1..(c - 1) : consumers[d].pc # "idle"
    /\ c <= budget.ncons

(***************************************************************************)
(* runner.submit_job                                                       *)
(***************************************************************************)
\* a mutation: the job record is created before the synchronous stages run
SubmitCheck_storefirst(r, p) ==
    /\ SlotFree(r, "runner")
    /\ LET pf == PreflightOf[p]
       IN  /\ reqs' = [reqs EXCEPT ![r] =
                  IF pf.ok THEN Answered("runner", 202, None, p.job_id)
                  ELSE Answered("runner", 400, pf.kind, None)]
           /\ bundles' = [bundles EXCEPT ![r] =
                  [stored |-> TRUE, dsl |-> p, plan |-> NoPlan, result |-> NoResult]]
           /\ JOBS' = [JOBS EXCEPT ![p.job_id] = r]
    /\ UNCHANGED <<evq, emitted, execs, streams, consumers, budget, input, output>>

\* a mutation: the job_id is looked up in JOBS before the other stages run
SubmitCheck_dupfirst(r, p) ==
    /\ SlotFree(r, "runner")
    /\ LET pf == PreflightOf[p]
       IN  reqs' = [reqs EXCEPT ![r] =
              IF JOBS[p.job_id] # 0 THEN Answered("runner", 409, "duplicate", None)
              ELSE IF ~pf.ok THEN Answered("runner", 400, pf.kind, None)
              ELSE [pc |-> "checked", path |-> "runner", dsl |-> p, plan |-> pf.plan,
                    resp |-> NoResp]]
    /\ UNCHANGED <<JOBS, bundles, evq, emitted, execs, streams, consumers, budget, input, output>>

\* submit_job up to the test `job_id in JOBS`: schema, policy, compile, audit,
\* duplicate; a failing stage aborts with 400 (409 for the duplicate)
SubmitCheck(r, p) ==
    /\ SlotFree(r, "runner")
    /\ LET pf == PreflightOf[p]
       IN  reqs' = [reqs EXCEPT ![r] =
              IF ~pf.ok THEN Answered("runner", 400, pf.kind, None)
              ELSE IF JOBS[p.job_id] # 0 THEN Answered("runner", 409, "duplicate", None)
              ELSE [pc |-> "checked", path |-> "runner", dsl |-> p, plan |-> pf.plan,
                    resp |-> NoResp]]
    /\ UNCHANGED <<JOBS, bundles, evq, emitted, execs, streams, consumers, budget, input, output>>

\* a mutation: the handler waits while a remote command is outstanding
SubmitStore_blocking(r) ==
    /\ reqs[r].pc = "checked"
    /\ \A q \in Requests : execs[q].pc # "running"
    /\ bundles' = [bundles EXCEPT ![r] =
           [stored |-> TRUE, dsl |-> reqs[r].dsl, plan |-> reqs[r].plan,
            result |-> NoResult]]
    /\ JOBS' = [JOBS EXCEPT ![reqs[r].dsl.job_id] = r]
    /\ execs' = [execs EXCEPT ![r] =
           [NoExec EXCEPT !.pc = "spawned", !.path = "runner",
                          !.job_id = reqs[r].dsl.job_id]]
    /\ reqs' = [reqs EXCEPT ![r] = Answered("runner", 202, None, reqs[r].dsl.job_id)]
    /\ UNCHANGED <<evq, emitted, streams, consumers, budget, input, output>>

\* submit_job from the creation of the queue on: the record is stored, the
\* worker thread is started and the job_id is returned
SubmitStore(r) ==
    /\ reqs[r].pc = "checked"
    /\ bundles' = [bundles EXCEPT ![r] =
           [stored |-> TRUE, dsl |-> reqs[r].dsl, plan |-> reqs[r].plan,
            result |-> NoResult]]
    /\ JOBS' = [JOBS EXCEPT ![reqs[r].dsl.job_id] = r]
    /\ execs' = [execs EXCEPT ![r] =
           [NoExec EXCEPT !.pc = "spawned", !.path = "runner",
                          !.job_id = reqs[r].dsl.job_id]]
    /\ reqs' = [reqs EXCEPT ![r] = Answered("runner", 202, None, reqs[r].dsl.job_id)]
    /\ UNCHANGED <<evq, emitted, streams, consumers, budget, input, output>>

(***************************************************************************)
(* runner._run_job_thread and exec_pool.execute_plan                       *)
(***************************************************************************)
\* the first lines of _run_job_thread: the thread looks its bundle up by job_id
ThreadBegin(r) ==
    /\ execs[r].pc = "spawned"
    /\ LET b == JOBS[execs[r].job_id]
       IN  execs' = [execs EXCEPT ![r].pc = "ready", ![r].b = b,
                                  ![r].dsl = bundles[b].dsl,
                                  ![r].plan = bundles[b].plan,
                                  ![r].host = bundles[b].dsl.host]
    /\ UNCHANGED <<JOBS, bundles, evq, emitted, reqs, streams, consumers, budget, input, output>>

\* on_event: the runner puts on the bundle's queue, the agent tool writes a
\* Stream row
Emit(r, ev) ==
    IF execs[r].path = "runner"
    THEN /\ evq' = [evq EXCEPT ![execs[r].b] = Append(@, ev)]
         /\ emitted' = [emitted EXCEPT ![execs[r].b] = Append(@, ev)]
         /\ UNCHANGED streams
    ELSE /\ streams' = [streams EXCEPT ![r] = Append(@, ev)]
         /\ UNCHANGED <<evq, emitted>>

\* execute_plan, top of the loop body: step_start is emitted and the command
\* is handed to run_cmd
StepStart(r) ==
    /\ execs[r].pc = "ready"
    /\ Len(execs[r].raw) < Len(execs[r].plan)
    /\ LET s == execs[r].plan[Len(execs[r].raw) + 1]
       IN  /\ Emit(r, StepStartEv(s))
           /\ execs' = [execs EXCEPT ![r].pc = "running",
                                      ![r].sent = Append(@, StepStartEv(s)),
                                      ![r].ran = Append(@, [cmd |-> s.cmd,
                                                            host |-> execs[r].host])]
    /\ UNCHANGED <<JOBS, bundles, reqs, consumers, budget, input, output>>

\* a mutation: a step that did not exit with 0 ends the loop
StepFinish_halt(r, o) ==
    /\ execs[r].pc = "running"
    /\ o \in budget.outcomes
    /\ o.shake
    /\ LET s == execs[r].plan[Len(execs[r].raw) + 1]
           rr == [run_cmd(s.timeout_s, o) EXCEPT !.step_id = s.id]
       IN  /\ Emit(r, StepResultEv(s, rr))
           /\ execs' = [execs EXCEPT ![r].pc = "ready",
                           ![r].raw = Append(@, rr),
                           ![r].outs = Append(@, o),
                           ![r].sent = Append(@, StepResultEv(s, rr)),
                           ![r].plan = IF rr.exit_code = 0 THEN @
                                       ELSE SubSeq(@, 1, Len(execs[r].raw) + 1)]
    /\ UNCHANGED <<JOBS, bundles, reqs, consumers, budget, input, output>>

\* execute_plan, rest of the loop body: run_cmd returns, step_result is
\* emitted and the RawResult appended
StepFinish(r, o) ==
    /\ execs[r].pc = "running"
    /\ o \in budget.outcomes
    /\ o.shake
    /\ LET s == execs[r].plan[Len(execs[r].raw) + 1]
           rr == [run_cmd(s.timeout_s, o) EXCEPT !.step_id = s.id]
       IN  /\ Emit(r, StepResultEv(s, rr))
           /\ execs' = [execs EXCEPT ![r].pc = "ready",
                           ![r].raw = Append(@, rr),
                           ![r].outs = Append(@, o),
                           ![r].sent = Append(@, StepResultEv(s, rr))]
    /\ UNCHANGED <<JOBS, bundles, reqs, consumers, budget, input, output>>

\* the parse-and-validate loop and bundle["result"] = result; an exception
\* ends the thread (the agent tool call) there
JudgeAndStore(r) ==
    /\ execs[r].pc = "ready"
    /\ Len(execs[r].raw) = Len(execs[r].plan)
    /\ \E e \in {execs[r]} :
       \E j \in {Judge(e.plan, e.raw, e.dsl.context,
                       IF e.path = "runner" THEN PyNone ELSE PyInt(16))} :
           IF j.raised
           THEN /\ execs' = [execs EXCEPT ![r].pc = "crashed"]
                /\ reqs' = IF e.path = "agent"
                            THEN [reqs EXCEPT ![r] =
                                     Answered("agent", 500, "exception", None)]
                            ELSE reqs
                /\ UNCHANGED bundles
           ELSE /\ execs' = [execs EXCEPT ![r].pc = "stored", ![r].result = j]
                /\ bundles' = IF e.path = "runner"
                               THEN [bundles EXCEPT ![e.b].result = j]
                               ELSE bundles
                /\ UNCHANGED reqs
    /\ UNCHANGED <<JOBS, evq, emitted, streams, consumers, budget, input, output>>

\* the verdict event, last statement of the thread (the tool then returns)
EmitVerdict(r) ==
    /\ execs[r].pc = "stored"
    /\ Emit(r, VerdictEv(execs[r].result))
    /\ execs' = [execs EXCEPT ![r].pc = "done",
                               ![r].sent = Append(@, VerdictEv(execs[r].result))]
    /\ reqs' = IF execs[r].path = "agent"
                THEN [reqs EXCEPT ![r] =
                         Answered("agent", 200, execs[r].result.status, None)]
                ELSE reqs
    /\ UNCHANGED <<JOBS, bundles, consumers, budget, input, output>>

(***************************************************************************)
(* agent_runner.AgentRunner._execute_verification_plan_tool                *)
(***************************************************************************)
\* the synchronous stages of the tool; an accepted plan is then executed in
\* the calling thread by the actions above
AgentCall(r, p) ==
    /\ SlotFree(r, "agent")
    /\ LET pf == PreflightOf[p]
       IN  IF ~pf.ok
           THEN /\ reqs' = [reqs EXCEPT ![r] = Answered("agent", 400, pf.kind, None)]
                /\ UNCHANGED execs
           ELSE /\ reqs' = [reqs EXCEPT ![r] =
                       [pc |-> "executing", path |-> "agent", dsl |-> NoDsl,
                        plan |-> NoPlan, resp |-> NoResp]]
                /\ execs' = [execs EXCEPT ![r] =
                       [NoExec EXCEPT !.pc = "ready", !.path = "agent",
                                      !.job_id = p.job_id, !.dsl = p,
                                      !.plan = pf.plan, !.host = AGENT_HOST]]
    /\ UNCHANGED <<JOBS, bundles, evq, emitted, streams, consumers, budget, input, output>>

(***************************************************************************)
(* runner.stream_events                                                    *)
(***************************************************************************)
\* the handler: unknown job ids are answered 404; otherwise the generator is
\* created on the job's queue and yields the plan preview
Attach(c, j) ==
    /\ ConsumerFree(c)
    /\ JOBS[j] # 0
    /\ consumers' = [consumers EXCEPT ![c] =
           [pc |-> "streaming", b |-> JOBS[j],
            got |-> <<PlanPreviewEv(bundles[JOBS[j]].plan)>>]]
    /\ UNCHANGED <<JOBS, bundles, evq, emitted, reqs, execs, streams, budget, input, output>>

\* one turn of the generator's loop: evq.get() blocks while the queue is
\* empty; the event is yielded; a verdict ends the generator
GetEvent(c) ==
    /\ consumers[c].pc = "streaming"
    /\ evq[consumers[c].b] # <<>>
    /\ LET ev == Head(evq[consumers[c].b])
       IN  consumers' = [consumers EXCEPT ![c].got = Append(@, ev),
                           ![c].pc = IF ev.t = "verdict" THEN "closed" ELSE "streaming"]
    /\ evq' = [evq EXCEPT ![consumers[c].b] = Tail(@)]
    /\ UNCHANGED <<JOBS, bundles, emitted, reqs, execs, streams, budget, input, output>>

(***************************************************************************)
(* runner.get_result                                                       *)
(***************************************************************************)
\* what get_result(job_id) answers in the current state
GetResultOf(j) ==
    IF JOBS[j] = 0 THEN [code |-> 404, reason |-> "Unknown job_id", res |-> NoResult]
    ELSE IF bundles[JOBS[j]].result = NoResult
         THEN [code |-> 404, reason |-> "Result not ready", res |-> NoResult]
         ELSE [code |-> 200, reason |-> None, res |-> bundles[JOBS[j]].result]

\* the handler is called for job_id j; its answer is kept
GetResult(j) ==
    /\ budget.nget > 0 /\ ~output.done
    /\ output' = [done |-> TRUE, job |-> j, val |-> GetResultOf(j)]
    /\ UNCHANGED <<JOBS, bundles, evq, emitted, reqs, execs, streams, consumers,
                   budget, input>>

(***************************************************************************)
(* the server process                                                      *)
(***************************************************************************)
\* the process ends and is started again: JOBS is a dict of the module, so it
\* starts empty and the records, their queues and the worker threads are
\* gone; requests in flight lose their connection, the Stream rows stay
Crash ==
    /\ budget.ncrash > 0
    /\ \E j \in JobIds : JOBS[j] # 0
    /\ JOBS' = [j \in JobIds |-> 0]
    /\ bundles' = [r \in Requests |-> NoBundle]
    /\ evq' = [r \in Requests |-> <<>>]
    /\ reqs' = [r \in Requests |->
           IF reqs[r].pc \in {"checked", "executing"}
           THEN Answered(reqs[r].path, 0, "connection lost", None)
           ELSE reqs[r]]
    /\ execs' = [r \in Requests |->
           IF execs[r].pc \in {"none", "done", "crashed"} THEN execs[r]
           ELSE [execs[r] EXCEPT !.pc = "killed"]]
    /\ consumers' = [c \in Consumers |->
           IF consumers[c].pc = "streaming"
           THEN [consumers[c] EXCEPT !.pc = "closed"] ELSE consumers[c]]
    /\ UNCHANGED <<emitted, streams, budget, input, output>>

Next ==
    \/ \E r \in Requests, p \in Payloads : SubmitCheck(r, p)
    \/ \E r \in Requests : SubmitStore(r)
    \/ \E r \in Requests, p \in Payloads : AgentCall(r, p)
    \/ \E r \in Requests : ThreadBegin(r)
    \/ \E r \in Requests : StepStart(r)
    \/ \E r \in Requests, o \in RemoteOutcomes : StepFinish(r, o)
    \/ \E r \in Requests : JudgeAndStore(r)
    \/ \E r \in Requests : EmitVerdict(r)
    \/ \E c \in Consumers, j \in JobIds : Attach(c, j)
    \/ \E c \in Consumers : GetEvent(c)
    \/ \E j \in JobIds : GetResult(j)
    \/ Crash

Spec == Init /\ [][Next]_vars

\* the server runs every request in a thread of its own (threaded=True), so
\* a handler that can go on does go on; nothing is assumed of the worker
\* threads, whose remote commands may never return
SpecSubmit == Init /\ [][Next]_vars /\ \A r \in Requests : WF_vars(SubmitStore(r))

(***************************************************************************)
(* One job on the runner, against a host that behaves in one way           *)
(***************************************************************************)
HostBehaviours == RemoteOutcomes \cup {Stalls}

InitHost ==
    /\ JOBS = [j \in JobIds |-> 0]
    /\ bundles = [r \in Requests |-> NoBundle]
    /\ evq = [r \in Requests |-> <<>>]
    /\ emitted = [r \in Requests |-> <<>>]
    /\ reqs = [r \in Requests |-> NoReq]
    /\ execs = [r \in Requests |-> NoExec]
    /\ streams = [r \in Requests |-> <<>>]
    /\ consumers = [c \in Consumers |-> NoConsumer]
    /\ \E o \in HostBehaviours :
          budget = [nreq |-> 1, ncons |-> 0, paths |-> {"runner"},
                    outcomes |-> {o}, nget |-> 0, ncrash |-> 0]
    /\ input = <<>>
    /\ output = [done |-> FALSE]

NextHost ==
    \/ \E r \in Requests, p \in Payloads : SubmitCheck(r, p)
    \/ \E r \in Requests : SubmitStore(r)
    \/ \E r \in Requests : ThreadBegin(r)
    \/ \E r \in Requests : StepStart(r)
    \/ \E r \in Requests, o \in HostBehaviours : StepFinish(r, o)
    \/ \E r \in Requests : JudgeAndStore(r)
    \/ \E r \in Requests : EmitVerdict(r)

\* the worker thread runs execute_plan on its event loop to the end
\* (run_until_complete): a step of the plan that can be taken is taken, and
\* a run_cmd that can return does return
SpecHost ==
    /\ InitHost /\ [][NextHost]_vars
    /\ \A r \in Requests :
          /\ WF_vars(SubmitStore(r))
          /\ WF_vars(ThreadBegin(r))
          /\ WF_vars(StepStart(r))
          /\ WF_vars(\E o \in HostBehaviours : StepFinish(r, o))

(***************************************************************************)
(* static_audit as a function of the command alone                        *)
(***************************************************************************)
MaxCmdLen == 4
AuditAlphabet == {" ", "r", "m", "R", "x"}

\* every command over the alphabet up to the bound, and longer ones that
\* hold the other patterns at the start, in the middle and at the end
AuditInputs ==
    UNION {[1..n -> AuditAlphabet] : n \in 0..MaxCmdLen}
      \cup { <<"S","h","u","t","D","o","w","n">>,
             <<"x"," ","r","e","B","O","O","T">>,
             <<"l","s",";","i","p","t","a","b","l","e","s"," ","-","F">>,
             <<"C","H","M","O","D"," ","7">>,
             <<"c","h","o","w","n">>,
             <<"s","u","d","o"," ","M","k","f","s",".","x">>,
             <<"d","d">>,
             <<"D","D"," ","i","f">>,
             <<"x","d","d"," ">>,
             <<"s","y","s","c","t","l"," ","-","a">>,
             <<"c","a","t"," ","m">> }

InitAudit ==
    /\ JOBS = [j \in JobIds |-> 0]
    /\ bundles = [r \in Requests |-> NoBundle]
    /\ evq = [r \in Requests |-> <<>>]
    /\ emitted = [r \in Requests |-> <<>>]
    /\ reqs = [r \in Requests |-> NoReq]
    /\ execs = [r \in Requests |-> NoExec]
    /\ streams = [r \in Requests |-> <<>>]
    /\ consumers = [c \in Consumers |-> NoConsumer]
    /\ budget = [nreq |-> 0, ncons |-> 0, paths |-> {}, outcomes |-> {}, nget |-> 0, ncrash |-> 0]
    /\ input \in AuditInputs
    /\ output = [done |-> FALSE]

\* static_audit(exec_cmd) is called on the command
ApplyAudit ==
    /\ ~output.done
    /\ output' = [done |-> TRUE, val |-> static_audit(input)]
    /\ UNCHANGED <<JOBS, bundles, evq, emitted, reqs, execs, streams, consumers,
                   budget, input>>

SpecAudit == InitAudit /\ [][ApplyAudit]_vars

(***************************************************************************)
(* run_cmd as a function of what the remote side returns                   *)
(***************************************************************************)
\* a text of n characters
Text(n) == [i \in 1..n |-> "x"]
\* lengths around a cap
Around(cap) == {0, 1, cap - 1, cap, cap + 1}
StepTimeout == 2

\* the remote behaviours: the connection is made or fails with an exception
\* whose text has elen characters; the command runs dur seconds and returns
\* olen characters on stdout and elen on stderr
RunCmdInputs ==
    [conn : BOOLEAN, dur : {1, 3}, olen : Around(OUTPUT_CAP), elen : Around(ERR_CAP)]

InitRunCmd ==
    /\ JOBS = [j \in JobIds |-> 0]
    /\ bundles = [r \in Requests |-> NoBundle]
    /\ evq = [r \in Requests |-> <<>>]
    /\ emitted = [r \in Requests |-> <<>>]
    /\ reqs = [r \in Requests |-> NoReq]
    /\ execs = [r \in Requests |-> NoExec]
    /\ streams = [r \in Requests |-> <<>>]
    /\ consumers = [c \in Consumers |-> NoConsumer]
    /\ budget = [nreq |-> 0, ncons |-> 0, paths |-> {}, outcomes |-> {}, nget |-> 0, ncrash |-> 0]
    /\ input \in RunCmdInputs
    /\ output = [done |-> FALSE]

\* run_cmd is called; of the RawResult the state keeps the exit code, the
\* lengths of the two payloads and the truncated flag
ApplyRunCmd ==
    /\ ~output.done
    /\ LET o  == [shake |-> TRUE, conn |-> input.conn, dur |-> input.dur, exit |-> 0,
                  stdout |-> Text(input.olen), stderr |-> Text(input.elen)]
           rr == run_cmd(StepTimeout, o)
       IN  output' = [done |-> TRUE,
                      val |-> [exit_code |-> rr.exit_code,
                               stdout_len |-> Len(rr.stdout),
                               stderr_len |-> Len(rr.stderr),
                               truncated |-> rr.truncated]]
    /\ UNCHANGED <<JOBS, bundles, evq, emitted, reqs, execs, streams, consumers,
                   budget, input>>

SpecRunCmd == InitRunCmd /\ [][ApplyRunCmd]_vars

(***************************************************************************)
(* policy_gate as a function of the DSL and the catalog                    *)
(***************************************************************************)
MaxPolicySteps == 3
DASHN == <<"-","n">>
EV == <<"e","v">>
SP == <<" ">>

\* command templates of an action that may need sudo
SudoTemplates ==
    { SUDO \o SP \o SMART,
      SUDO \o SP \o SMART \o SP \o DASHN,
      SUDO \o SP \o DASHN \o SP \o SMART,
      SUDO \o SP \o EV \o SP \o SMART,
      SMART }

\* catalogs with a plain read-only action "good", an action "act" of every
\* template and classification, and one profile with every allow_sudo list
PolicyCatalogs ==
    { [actions |->
          [a \in {"good", "act"} |->
              IF a = "good"
              THEN [cmd |-> <<Lit(CAT \o <<"m">>)>>, read_only |-> TRUE,
                    requires_sudo |-> FALSE, parser |-> None]
              ELSE [cmd |-> <<Lit(tpl)>>, read_only |-> ro,
                    requires_sudo |-> rs, parser |-> None]],
       profiles |->
          [q \in {"verify_readonly"} |-> [max_timeout_s |-> 1, allow_sudo |-> al]]]
      : tpl \in SudoTemplates, ro \in BOOLEAN, rs \in BOOLEAN,
        al \in SUBSET {SMART, DASHN} }

\* the DSLs: up to MaxPolicySteps steps over the two actions and an unknown
\* one, under the catalog's profile or one the catalog does not have
InitPolicy ==
    /\ JOBS = [j \in JobIds |-> 0]
    /\ bundles = [r \in Requests |-> NoBundle]
    /\ evq = [r \in Requests |-> <<>>]
    /\ emitted = [r \in Requests |-> <<>>]
    /\ reqs = [r \in Requests |-> NoReq]
    /\ execs = [r \in Requests |-> NoExec]
    /\ streams = [r \in Requests |-> <<>>]
    /\ consumers = [c \in Consumers |-> NoConsumer]
    /\ budget = [nreq |-> 0, ncons |-> 0, paths |-> {}, outcomes |-> {}, nget |-> 0, ncrash |-> 0]
    /\ \E c \in PolicyCatalogs, prof \in {"verify_readonly", "extended_verify"},
          acts \in UNION {[1..m -> {"good", "act", "zz"}] : m \in 1..MaxPolicySteps} :
            input = [catalog |-> c,
                     dsl |-> Payload("j1", prof, NoCtx,
                                [k \in 1..Len(acts) |->
                                    Step("s", acts[k], NoArgs, 1, <<>>)])]
    /\ output = [done |-> FALSE]

\* policy_gate(dsl, catalog) is called
ApplyPolicy ==
    /\ ~output.done
    /\ output' = [done |-> TRUE, val |-> policy_gate(input.dsl, input.catalog)]
    /\ UNCHANGED <<JOBS, bundles, evq, emitted, reqs, execs, streams, consumers,
                   budget, input>>

SpecPolicy == InitPolicy /\ [][ApplyPolicy]_vars

(***************************************************************************)
(* The parse stage as a function of the parser name and the output         *)
(***************************************************************************)
MaxLines == 3

\* lines of output: of dmidecode, with and without the ":" after the key,
\* of /proc/meminfo, and one of no tool
ParseLines ==
    { <<"M","e","m","o","r","y"," ","D","e","v","i","c","e">>,
      <<"S","i","z","e",":"," ","1","6"," ","G","B">>,
      <<"\t","S","i","z","e",":"," ","1","6","3","8","4"," ","M","B">>,
      <<"S","i","z","e",":"," ","N","o"," ","M","o","d","u","l","e"," ","I","n","s","t","a","l","l","e","d">>,
      <<"S","i","z","e"," ","1","6"," ","G","B">>,
      <<"S","p","e","e","d",":"," ","3","2","0","0"," ","M","T","/","s">>,
      <<"S","p","e","e","d">>,
      <<"L","o","c","a","t","o","r",":"," ","A","1">>,
      <<"E","r","r","o","r"," ","C","o","r","r","e","c","t","i","o","n"," ","T","y","p","e",":"," ","E","C","C">>,
      <<"M","e","m","T","o","t","a","l",":"," ","1","6","7","7","7","2","1","6"," ","k","B">>,
      <<"x">> }

\* the texts of up to MaxLines lines, each line ended by "\n"
RECURSIVE JoinLines(_)
JoinLines(ls) == IF ls = <<>> THEN <<>> ELSE Head(ls) \o <<"\n">> \o JoinLines(Tail(ls))

\* step.parser: parsers of the registry, a name that is not in it, and None
ParserNames == {"parse_dmidecode", "parse_meminfo", "parse_smart", "parse_nothing", None}

InitParse ==
    /\ JOBS = [j \in JobIds |-> 0]
    /\ bundles = [r \in Requests |-> NoBundle]
    /\ evq = [r \in Requests |-> <<>>]
    /\ emitted = [r \in Requests |-> <<>>]
    /\ reqs = [r \in Requests |-> NoReq]
    /\ execs = [r \in Requests |-> NoExec]
    /\ streams = [r \in Requests |-> <<>>]
    /\ consumers = [c \in Consumers |-> NoConsumer]
    /\ budget = [nreq |-> 0, ncons |-> 0, paths |-> {}, outcomes |-> {}, nget |-> 0, ncrash |-> 0]
    /\ \E name \in ParserNames,
          ls \in UNION {[1..n -> ParseLines] : n \in 0..MaxLines} :
            input = [parser |-> name, lines |-> ls, stdout |-> JoinLines(ls)]
    /\ output = [done |-> FALSE]

\* the first two statements of the loop body of _run_job_thread
ApplyParse ==
    /\ ~output.done
    /\ \E raised \in {ParseRaises(input.parser, input.stdout)} :
          output' = [done |-> TRUE, raised |-> raised,
                     parsed |-> IF raised THEN [k \in {} |-> PyNone]
                                ELSE ParseStep(input.parser, input.stdout)]
    /\ UNCHANGED <<JOBS, bundles, evq, emitted, reqs, execs, streams, consumers,
                   budget, input>>

SpecParse == InitParse /\ [][ApplyParse]_vars

(***************************************************************************)
(* The arguments a validator is called with, as a function of the          *)
(* validator reference and the context                                     *)
(***************************************************************************)
AED == <<"all_expected_dimms">>

\* validator references: bare names and names with arguments
DefaultsValidators ==
    { TMWP, TMWP \o <<"(","3","2",",","1",")">>, TMWP \o <<"(","3","2",")">>,
      AED, AED \o <<"(","x",")">>, <<"nic_link_up">> }

Absent == [t |-> "absent", n |-> 0, s |-> <<>>]

\* the context with the keys that are given
CtxOf(vals) == [k \in {j \in DOMAIN vals : vals[j] # Absent} |-> vals[k]]

\* contexts: with and without each of the keys read, expected_total_gib
\* also present with the value 0
DefaultsContexts ==
    { CtxOf([expected_total_gib |-> etg, expected |-> exp, pct |-> pct,
             expected_dimms |-> dimms]) :
        etg \in {Absent, PyInt(16), PyInt(0)},
        exp \in {Absent, PyDict([j \in {"total_gib"} |-> PyInt(8)]),
                 PyDict([j \in {} |-> PyNone])},
        pct \in {Absent, PyInt(5)},
        dimms \in {Absent, PyList(<<[slot |-> "A", size_gib |-> 16000]>>)} }

InitDefaults ==
    /\ JOBS = [j \in JobIds |-> 0]
    /\ bundles = [r \in Requests |-> NoBundle]
    /\ evq = [r \in Requests |-> <<>>]
    /\ emitted = [r \in Requests |-> <<>>]
    /\ reqs = [r \in Requests |-> NoReq]
    /\ execs = [r \in Requests |-> NoExec]
    /\ streams = [r \in Requests |-> <<>>]
    /\ consumers = [c \in Consumers |-> NoConsumer]
    /\ budget = [nreq |-> 0, ncons |-> 0, paths |-> {}, outcomes |-> {}, nget |-> 0, ncrash |-> 0]
    /\ input \in [validator : DefaultsValidators, context : DefaultsContexts]
    /\ output = [done |-> FALSE]

\* _run_job_thread up to the call vfn(parsed, *args): the name, the arguments
\* given in the reference and the arguments of the call
ApplyDefaults ==
    /\ ~output.done
    /\ \E pv \in {parse_validator_spec(input.validator)} :
       \E da \in {DefaultArgs(pv[1], pv[2], input.context, PyNone)} :
          output' = [done |-> TRUE, name |-> pv[1], given |-> pv[2],
                     raised |-> da.raised, args |-> da.args]
    /\ UNCHANGED <<JOBS, bundles, evq, emitted, reqs, execs, streams, consumers,
                   budget, input>>

SpecDefaults == InitDefaults /\ [][ApplyDefaults]_vars

(***************************************************************************)
(* _parse_validator_spec as a function of the validator reference          *)
(***************************************************************************)
MaxArgs == 2

\* literals between the commas: naturals, a negative integer, one with a
\* plus sign, decimals, a word, blanks around a literal, and nothing
ArgLiterals ==
    { <<"1","6">>, <<"0">>, <<"-","5">>, <<"+","7">>, <<"2",".","5">>,
      <<"-","2",".","5">>, <<"e","t","h","0">>, <<" ","1","6"," ">>, <<>> }

\* ",".join(lits)
RECURSIVE JoinCommas(_)
JoinCommas(ls) ==
    IF ls = <<>> THEN <<>>
    ELSE IF Len(ls) = 1 THEN ls[1]
    ELSE ls[1] \o <<",">> \o JoinCommas(Tail(ls))

InitSpecArgs ==
    /\ JOBS = [j \in JobIds |-> 0]
    /\ bundles = [r \in Requests |-> NoBundle]
    /\ evq = [r \in Requests |-> <<>>]
    /\ emitted = [r \in Requests |-> <<>>]
    /\ reqs = [r \in Requests |-> NoReq]
    /\ execs = [r \in Requests |-> NoExec]
    /\ streams = [r \in Requests |-> <<>>]
    /\ consumers = [c \in Consumers |-> NoConsumer]
    /\ budget = [nreq |-> 0, ncons |-> 0, paths |-> {}, outcomes |-> {}, nget |-> 0, ncrash |-> 0]
    /\ \E name \in {TMWP, <<"nic_speed_at_least">>}, bare \in BOOLEAN,
          lits \in UNION {[1..n -> ArgLiterals] : n \in 0..MaxArgs} :
            input = [name |-> name, bare |-> bare,
                     lits |-> IF bare THEN <<>> ELSE lits,
                     spec |-> IF bare THEN name
                              ELSE name \o <<"(">> \o JoinCommas(lits) \o <<")">>]
    /\ output = [done |-> FALSE]

\* _parse_validator_spec(step.validator)
ApplySpecArgs ==
    /\ ~output.done
    /\ output' = [done |-> TRUE, val |-> parse_validator_spec(input.spec)]
    /\ UNCHANGED <<JOBS, bundles, evq, emitted, reqs, execs, streams, consumers,
                   budget, input>>

SpecSpecArgs == InitSpecArgs /\ [][ApplySpecArgs]_vars

(***************************************************************************)
(* policy_gate on two DSLs with the same profile and the same actions      *)
(***************************************************************************)
MaxPairSteps == 2

\* the ways the second DSL differs from the first: in the arguments of its
\* steps, in the host, in the timeouts, in the parsers and validators, in
\* the context, or in all of them
Variations == {"args", "host", "timeouts", "checks", "context", "all"}

Vary(dsl, how) ==
    [dsl EXCEPT
       !.host = IF how \in {"host", "all"} THEN <<"g">> ELSE @,
       !.context = IF how \in {"context", "all"}
                   THEN [k \in {"component"} |-> PyStr(<<"nic">>)] ELSE @,
       !.steps = [k \in 1..Len(dsl.steps) |->
          [dsl.steps[k] EXCEPT
             !.args = IF how \in {"args", "all"}
                      THEN [a \in {"path"} |-> <<"/","b","i","n","/","s","h">>] ELSE @,
             !.timeout_s = IF how \in {"timeouts", "all"} THEN @ + 9 ELSE @,
             !.parser = IF how \in {"checks", "all"} THEN "parse_smart" ELSE @,
             !.validator = IF how \in {"checks", "all"}
                           THEN <<"disk_smart_pass">> ELSE @]]]

InitPolicyPair ==
    /\ JOBS = [j \in JobIds |-> 0]
    /\ bundles = [r \in Requests |-> NoBundle]
    /\ evq = [r \in Requests |-> <<>>]
    /\ emitted = [r \in Requests |-> <<>>]
    /\ reqs = [r \in Requests |-> NoReq]
    /\ execs = [r \in Requests |-> NoExec]
    /\ streams = [r \in Requests |-> <<>>]
    /\ consumers = [c \in Consumers |-> NoConsumer]
    /\ budget = [nreq |-> 0, ncons |-> 0, paths |-> {}, outcomes |-> {}, nget |-> 0, ncrash |-> 0]
    /\ \E c \in PolicyCatalogs, prof \in {"verify_readonly", "extended_verify"},
          acts \in UNION {[1..m -> {"good", "act", "zz"}] : m \in 0..MaxPairSteps},
          how \in Variations :
            LET dsl == Payload("j1", prof, NoCtx,
                          [k \in 1..Len(acts) |-> Step("s", acts[k], NoArgs, 1, <<>>)])
            IN  input = [catalog |-> c, dsl |-> dsl, other |-> Vary(dsl, how)]
    /\ output = [done |-> FALSE]

\* policy_gate is called on the one and on the other
ApplyPolicyPair ==
    /\ ~output.done
    /\ output' = [done |-> TRUE,
                  val |-> policy_gate(input.dsl, input.catalog),
                  other |-> policy_gate(input.other, input.catalog)]
    /\ UNCHANGED <<JOBS, bundles, evq, emitted, reqs, execs, streams, consumers,
                   budget, input>>

SpecPolicyPair == InitPolicyPair /\ [][ApplyPolicyPair]_vars

(***************************************************************************)
(* The judgement as a function of a step's output, validator and context   *)
(***************************************************************************)
\* the decimal text of a natural number
RECURSIVE IntText(_)
IntText(n) ==
    IF n < 10 THEN <<Digits[n + 1]>>
    ELSE IntText(n \div 10) \o <<Digits[(n % 10) + 1]>>

\* /proc/meminfo's MemTotal line for kb kilobytes
MemText(kb) == MEMTOTAL \o <<" ">> \o IntText(kb) \o <<" ">> \o KB

\* outputs of the read_meminfo command
JudgeOutputs ==
    {MemText(kb) : kb \in {0, 16384000, 16441672, 16777216, 17112760, 17118004,
                           17179869, 33554432}}
      \cup { <<>>, MEMTOTAL \o IntText(16777216) \o <<" ">> \o KB }

\* validator references of the step
JudgeValidators ==
    { TMWP \o <<"(","1","6",",","2",")">>,
      TMWP \o <<"(","1","6",","," ","2",")">>,
      TMWP \o <<"(","1","6",")">>,
      TMWP \o <<"(","3","2",",","2",")">>,
      TMWP,
      <<>> }

\* contexts of the DSL
JudgeContexts ==
    { NoCtx,
      [k \in {"expected_total_gib"} |-> PyInt(16)],
      [k \in {"expected"} |-> PyDict([j \in {"total_gib"} |-> PyInt(16)])] }

\* the DSL of the judged job: one read_meminfo step parsed by parse_meminfo
JudgeDsl(validator, ctx) ==
    Payload("j1", "verify_readonly", ctx,
        <<[Step("s1", "read_meminfo", NoArgs, 1, validator)
              EXCEPT !.parser = "parse_meminfo"]>>)

InitJudge ==
    /\ JOBS = [j \in JobIds |-> 0]
    /\ bundles = [r \in Requests |-> NoBundle]
    /\ evq = [r \in Requests |-> <<>>]
    /\ emitted = [r \in Requests |-> <<>>]
    /\ reqs = [r \in Requests |-> NoReq]
    /\ execs = [r \in Requests |-> NoExec]
    /\ streams = [r \in Requests |-> <<>>]
    /\ consumers = [c \in Consumers |-> NoConsumer]
    /\ budget = [nreq |-> 0, ncons |-> 0, paths |-> {}, outcomes |-> {}, nget |-> 0, ncrash |-> 0]
    /\ input \in [stdout : JudgeOutputs, validator : JudgeValidators,
                   context : JudgeContexts]
    /\ output = [done |-> FALSE]

\* the command has completed with the output and _run_job_thread judges the
\* plan compiled from the DSL
ApplyJudge ==
    /\ ~output.done
    /\ LET dsl  == JudgeDsl(input.validator, input.context)
           plan == compile_plan(dsl, Catalog).plan
           raw  == <<[RawResult(0, input.stdout, <<>>, 0, FALSE)
                        EXCEPT !.step_id = plan[1].id]>>
       IN  output' = [done |-> TRUE, val |-> Judge(plan, raw, dsl.context, PyNone)]
    /\ UNCHANGED <<JOBS, bundles, evq, emitted, reqs, execs, streams, consumers,
                   budget, input>>

SpecJudge == InitJudge /\ [][ApplyJudge]_vars

(***************************************************************************)
(* The judgement of two RawResults with the same stdout, by both pipelines *)
(***************************************************************************)
\* outputs of the command
PairOutputs == {<<>>, MemText(16777216), MemText(33554432)}

\* what run_cmd may report beside the stdout
PairReports ==
    [exit_code : {0, 1, 124}, stderr : {<<>>, TIMEOUT},
     duration_ms : {0, 1000}, truncated : BOOLEAN]

InitJudgePair ==
    /\ JOBS = [j \in JobIds |-> 0]
    /\ bundles = [r \in Requests |-> NoBundle]
    /\ evq = [r \in Requests |-> <<>>]
    /\ emitted = [r \in Requests |-> <<>>]
    /\ reqs = [r \in Requests |-> NoReq]
    /\ execs = [r \in Requests |-> NoExec]
    /\ streams = [r \in Requests |-> <<>>]
    /\ consumers = [c \in Consumers |-> NoConsumer]
    /\ budget = [nreq |-> 0, ncons |-> 0, paths |-> {}, outcomes |-> {}, nget |-> 0, ncrash |-> 0]
    /\ input \in [stdout : PairOutputs, validator : JudgeValidators,
                   context : JudgeContexts, report : PairReports]
    /\ output = [done |-> FALSE]

\* the parse-and-validate loop and the VerificationResult of
\* _run_job_thread on a run that exited with 0 and on a run with the same
\* stdout and the other report, and of _execute_verification_plan_tool on
\* the first run
ApplyJudgePair ==
    /\ ~output.done
    /\ \E dsl \in {JudgeDsl(input.validator, input.context)} :
       \E plan \in {compile_plan(dsl, Catalog).plan} :
       \E raw \in {<<[RawResult(0, input.stdout, <<>>, 0, FALSE)
                        EXCEPT !.step_id = plan[1].id]>>},
          other \in {<<[RawResult(input.report.exit_code, input.stdout,
                                  input.report.stderr, input.report.duration_ms,
                                  input.report.truncated)
                        EXCEPT !.step_id = plan[1].id]>>} :
       \E js \in {[k \in {"runner", "other", "agent"} |->
                     Judge(plan, IF k = "other" THEN other ELSE raw, dsl.context,
                           IF k = "agent" THEN PyInt(16) ELSE PyNone)]} :
           output' = [done |-> TRUE, runner |-> js["runner"],
                      other |-> js["other"], agent |-> js["agent"]]
    /\ UNCHANGED <<JOBS, bundles, evq, emitted, reqs, execs, streams, consumers,
                   budget, input>>

SpecJudgePair == InitJudgePair /\ [][ApplyJudgePair]_vars

(***************************************************************************)
(* compile_plan as a function of the DSL and the catalog                   *)
(***************************************************************************)
MaxCompileSteps == 2
MaxCalls == 2

Args(k, v) == [x \in {k} |-> v]

\* catalogs with an action of every kind of template (no placeholder, one,
\* the host, two) and the profiles' timeouts m1 and m2
CompileCatalog(m1, m2) ==
    [actions |->
        [a \in {"plain", "tpl", "hosted", "two"} |->
            CASE a = "plain" ->
                    [cmd |-> <<Lit(CAT \o <<"m">>)>>, read_only |-> TRUE,
                     requires_sudo |-> FALSE, parser |-> "parse_meminfo"]
              [] a = "tpl" ->
                    [cmd |-> <<Lit(CAT), Ph("path")>>, read_only |-> TRUE,
                     requires_sudo |-> FALSE, parser |-> None]
              [] a = "hosted" ->
                    [cmd |-> <<Lit(<<"p"," ">>), Ph("host")>>, read_only |-> TRUE,
                     requires_sudo |-> FALSE, parser |-> None]
              [] a = "two" ->
                    [cmd |-> <<Ph("a"), Lit(<<" ">>), Ph("b")>>, read_only |-> TRUE,
                     requires_sudo |-> FALSE, parser |-> None]],
     profiles |->
        [q \in {"verify_readonly", "extended_verify"} |->
            IF q = "verify_readonly"
            THEN [max_timeout_s |-> m1, allow_sudo |-> {}]
            ELSE [max_timeout_s |-> m2, allow_sudo |-> {}]]]

CompileCatalogs == {CompileCatalog(m1, m2) : m1 \in 1..2, m2 \in 2..3}

\* steps of a DSL: every action with its arguments present, absent or
\* partly present, an unknown action, timeouts below, at and above the
\* profiles' maxima, with and without a parser and a validator
CompileSteps ==
    { Step("s1", "plain", NoArgs, 1, <<>>),
      Step("s1", "plain", NoArgs, 3, TMWP),
      [Step("s2", "plain", NoArgs, 0, <<>>) EXCEPT !.parser = "parse_smart"],
      Step("s1", "tpl", Args("path", <<"a">>), 2, <<>>),
      Step("s2", "tpl", NoArgs, 1, <<>>),
      Step("s1", "tpl", Args("host", <<"x">>), 1, <<>>),
      Step("s1", "hosted", NoArgs, 10, <<>>),
      Step("s2", "hosted", Args("host", <<"x">>), 1, <<>>),
      Step("s1", "two", Args("a", <<"x">>), 1, <<>>),
      Step("s2", "two", NoArgs, 1, <<>>),
      Step("s1", "two", [x \in {"a", "b"} |-> <<x>>], 2, <<>>),
      Step("s1", "zz", NoArgs, 1, <<>>),
      Step("s2", "zz", Args("path", <<"a">>), 4, <<>>) }

\* the DSLs: up to MaxCompileSteps of the steps, under either profile
InitCompile ==
    /\ JOBS = [j \in JobIds |-> 0]
    /\ bundles = [r \in Requests |-> NoBundle]
    /\ evq = [r \in Requests |-> <<>>]
    /\ emitted = [r \in Requests |-> <<>>]
    /\ reqs = [r \in Requests |-> NoReq]
    /\ execs = [r \in Requests |-> NoExec]
    /\ streams = [r \in Requests |-> <<>>]
    /\ consumers = [c \in Consumers |-> NoConsumer]
    /\ budget = [nreq |-> 0, ncons |-> 0, paths |-> {}, outcomes |-> {}, nget |-> 0, ncrash |-> 0]
    /\ \E c \in CompileCatalogs, prof \in {"verify_readonly", "extended_verify"},
          steps \in UNION {[1..m -> CompileSteps] : m \in 0..MaxCompileSteps} :
            input = [catalog |-> c, dsl |-> Payload("j1", prof, NoCtx, steps)]
    /\ output = [done |-> FALSE, vals |-> <<>>]

\* a mutation: the call takes the arguments out of the DSL's steps
ApplyCompile_popargs ==
    /\ Len(output.vals) < MaxCalls
    /\ output' = [done |-> TRUE,
                  vals |-> Append(output.vals, compile_plan(input.dsl, input.catalog))]
    /\ input' = [input EXCEPT !.dsl.steps =
                    [i \in 1..Len(input.dsl.steps) |->
                        [input.dsl.steps[i] EXCEPT !.args = NoArgs]]]
    /\ UNCHANGED <<JOBS, bundles, evq, emitted, reqs, execs, streams, consumers,
                   budget>>

\* compile_plan(dsl, catalog) is called, and called again on the same objects
ApplyCompile ==
    /\ Len(output.vals) < MaxCalls
    /\ output' = [done |-> TRUE,
                  vals |-> Append(output.vals, compile_plan(input.dsl, input.catalog))]
    /\ UNCHANGED <<JOBS, bundles, evq, emitted, reqs, execs, streams, consumers,
                   budget, input>>

SpecCompile == InitCompile /\ [][ApplyCompile]_vars

(***************************************************************************)
(* total_mem_within_pct as a function of the parsed total and its          *)
(* arguments                                                               *)
(***************************************************************************)
MemSpan == 100

\* parsed dicts: no total, the total 0.0, and every total of two decimals
\* within MemSpan hundredths of 16.00 GiB
MemParsed ==
    {[k \in {} |-> PyNone], [total_gib |-> PyInt(0)]}
      \cup {[total_gib |-> PyFloat(h)] : h \in (1600 - MemSpan)..(1600 + MemSpan)}

\* the arguments after the name: (16, 2) as ints and as floats, other
\* percentages, and the defaults
MemArgs ==
    { <<PyInt(16), PyInt(2)>>, <<PyFloat(1600), PyFloat(200)>>,
      <<PyInt(16), PyInt(5)>>, <<PyInt(16), PyInt(1)>>, <<PyInt(16)>>, <<>> }

InitMemPct ==
    /\ JOBS = [j \in JobIds |-> 0]
    /\ bundles = [r \in Requests |-> NoBundle]
    /\ evq = [r \in Requests |-> <<>>]
    /\ emitted = [r \in Requests |-> <<>>]
    /\ reqs = [r \in Requests |-> NoReq]
    /\ execs = [r \in Requests |-> NoExec]
    /\ streams = [r \in Requests |-> <<>>]
    /\ consumers = [c \in Consumers |-> NoConsumer]
    /\ budget = [nreq |-> 0, ncons |-> 0, paths |-> {}, outcomes |-> {}, nget |-> 0, ncrash |-> 0]
    /\ input \in [parsed : MemParsed, args : MemArgs]
    /\ output = [done |-> FALSE]

\* total_mem_within_pct(parsed, *args) is called
ApplyMemPct ==
    /\ ~output.done
    /\ output' = [done |-> TRUE, val |-> total_mem_within_pct(input.parsed, input.args)]
    /\ UNCHANGED <<JOBS, bundles, evq, emitted, reqs, execs, streams, consumers,
                   budget, input>>

SpecMemPct == InitMemPct /\ [][ApplyMemPct]_vars

(***************************************************************************)
(* all_expected_dimms as a function of the parsed and the expected DIMMs   *)
(***************************************************************************)
MaxDimms == 2

Dimm(slot, size, speed, ecc) ==
    [slot |-> slot, size_gib |-> size, speed_mt |-> speed, ecc |-> ecc]

\* parsed DIMMs: two slots, sizes that round to 16.00 and one that does not,
\* with and without ECC, without the ecc key, without a size, and {}
ParsedDimms ==
    { Dimm("A", 16000, 3200, TRUE), Dimm("A", 15996, 3200, TRUE),
      Dimm("B", 16000, 3200, TRUE), Dimm("B", 8000, 3200, TRUE),
      Dimm("A", 16000, 3200, FALSE),
      [slot |-> "A", size_gib |-> 16000, speed_mt |-> 3200],
      [slot |-> "B", size_gib |-> -1, speed_mt |-> 3200, ecc |-> TRUE],
      [k \in {} |-> 0] }

\* expected DIMMs: the same slots, a size that rounds to 16.00, without the
\* ecc key (ECC is then expected), without ECC, and without a speed
ExpectedDimms ==
    { Dimm("A", 16000, 3200, TRUE), Dimm("B", 16000, 3200, TRUE),
      Dimm("A", 16004, 3200, TRUE),
      [slot |-> "A", size_gib |-> 16000, speed_mt |-> 3200],
      Dimm("A", 16000, 3200, FALSE),
      [slot |-> "B", size_gib |-> 8000, ecc |-> TRUE] }

InitDimms ==
    /\ JOBS = [j \in JobIds |-> 0]
    /\ bundles = [r \in Requests |-> NoBundle]
    /\ evq = [r \in Requests |-> <<>>]
    /\ emitted = [r \in Requests |-> <<>>]
    /\ reqs = [r \in Requests |-> NoReq]
    /\ execs = [r \in Requests |-> NoExec]
    /\ streams = [r \in Requests |-> <<>>]
    /\ consumers = [c \in Consumers |-> NoConsumer]
    /\ budget = [nreq |-> 0, ncons |-> 0, paths |-> {}, outcomes |-> {}, nget |-> 0, ncrash |-> 0]
    /\ \E have \in UNION {[1..n -> ParsedDimms] : n \in 0..MaxDimms},
          want \in UNION {[1..n -> ExpectedDimms] : n \in 0..MaxDimms} :
            input = [dimms |-> have, expected |-> want]
    /\ output = [done |-> FALSE]

\* all_expected_dimms(parsed, expected_dimms) is called
ApplyDimms ==
    /\ ~output.done
    /\ output' = [done |-> TRUE,
                  val |-> all_expected_dimms([dimms |-> PyList(input.dimms)],
                                             <<PyList(input.expected)>>)]
    /\ UNCHANGED <<JOBS, bundles, evq, emitted, reqs, execs, streams, consumers,
                   budget, input>>

SpecDimms == InitDimms /\ [][ApplyDimms]_vars

(***************************************************************************)
(* exec_pool.critic_propose_patch                                          *)
(***************************************************************************)
READ_NIC == <<"r","e","a","d","_","n","i","c">>
FALLBACK_ID == "s_fallback_sysfs"

\* s.args.get("iface"): the value, or <<None>> without the key
IfaceOf(step) == IF "iface" \in DOMAIN step.args THEN step.args.iface ELSE <<None>>

\* next((s.args.get("iface") for s in dsl.steps
\*       if s.action.startswith("read_nic")), "eth0")
\* (in this function an action is the string of its characters)
FirstIface(steps) ==
    IF \E i \in 1..Len(steps) : StartsWith(steps[i].action, READ_NIC)
    THEN IfaceOf(steps[CHOOSE i \in 1..Len(steps) :
                          /\ StartsWith(steps[i].action, READ_NIC)
                          /\ \A k \in 1..(i - 1) :
                                ~StartsWith(steps[k].action, READ_NIC)])
    ELSE <<"eth0">>

\* the fallback step
FallbackStep(iface) ==
    [Step(FALLBACK_ID, <<"r","e","a","d","_","s","y","s","f","s","_","n","i","c">>,
          [k \in {"iface"} |-> iface], 5, <<>>)
       EXCEPT !.parser = "parse_sysfs_nic"]

\* a mutation: the patch is appended without looking for its id
critic_propose_patch_again(dsl, failure) ==
    IF /\ Get(dsl.context, "component", PyNone) = PyStr(<<"nic">>)
       /\ Get(failure, "parser", PyNone) = PyStr(<<"parse_ethtool">>)
    THEN [patched |-> TRUE,
          dsl |-> [dsl EXCEPT !.steps = Append(@, FallbackStep(FirstIface(dsl.steps)))]]
    ELSE [patched |-> FALSE, dsl |-> dsl]

\* critic_propose_patch(dsl, failure): the DSL object after the call, and
\* whether it was returned (patched) or None was
critic_propose_patch(dsl, failure) ==
    IF /\ Get(dsl.context, "component", PyNone) = PyStr(<<"nic">>)
       /\ Get(failure, "parser", PyNone) = PyStr(<<"parse_ethtool">>)
       /\ ~\E i \in 1..Len(dsl.steps) : dsl.steps[i].id = FALLBACK_ID
    THEN [patched |-> TRUE,
          dsl |-> [dsl EXCEPT !.steps = Append(@, FallbackStep(FirstIface(dsl.steps)))]]
    ELSE [patched |-> FALSE, dsl |-> dsl]

MaxCriticSteps == 2
MaxCriticCalls == 3

\* steps of the DSLs patched: NIC reads of two interfaces and one without
\* an interface, another read, and a step that has the id of the fallback
\* already
CriticSteps ==
    { Step("s1", READ_NIC \o <<"_","l">>, [k \in {"iface"} |-> <<"e","1">>], 1, <<>>),
      Step("s4", READ_NIC \o <<"_","l">>, [k \in {"iface"} |-> <<"e","2">>], 1, <<>>),
      Step("s2", READ_NIC, NoArgs, 1, <<>>),
      Step("s3", <<"r","e","a","d","_","m">>, [k \in {"iface"} |-> <<"e","2">>], 1, <<>>),
      Step(FALLBACK_ID, <<"r","e","a","d","_","m">>, NoArgs, 1, <<>>) }

CriticContexts ==
    { NoCtx, [component |-> PyStr(<<"nic">>)], [component |-> PyStr(<<"memory">>)] }

\* structured failures: the parser that failed, with or without the id of
\* the step whose output it was
Failures ==
    { [parser |-> PyStr(<<"parse_ethtool">>)],
      [parser |-> PyStr(<<"parse_ethtool">>), step_id |-> PyStr(<<"s1">>)],
      [parser |-> PyStr(<<"parse_ethtool">>), step_id |-> PyStr(<<"s4">>)],
      [parser |-> PyStr(<<"parse_meminfo">>)],
      [k \in {} |-> PyNone] }

InitCritic ==
    /\ JOBS = [j \in JobIds |-> 0]
    /\ bundles = [r \in Requests |-> NoBundle]
    /\ evq = [r \in Requests |-> <<>>]
    /\ emitted = [r \in Requests |-> <<>>]
    /\ reqs = [r \in Requests |-> NoReq]
    /\ execs = [r \in Requests |-> NoExec]
    /\ streams = [r \in Requests |-> <<>>]
    /\ consumers = [c \in Consumers |-> NoConsumer]
    /\ budget = [nreq |-> 0, ncons |-> 0, paths |-> {}, outcomes |-> {}, nget |-> 0, ncrash |-> 0]
    /\ \E ctx \in CriticContexts,
          steps \in UNION {[1..n -> CriticSteps] : n \in 0..MaxCriticSteps} :
            input = Payload("j1", "verify_readonly", ctx, steps)
    /\ output = [dsl |-> input, rets |-> <<>>]

\* one more call on the same DSL object, with any failure
ApplyCritic(failure) ==
    /\ Len(output.rets) < MaxCriticCalls
    /\ \E c \in {critic_propose_patch(output.dsl, failure)} :
          output' = [dsl |-> c.dsl, rets |-> Append(output.rets, c.patched)]
    /\ UNCHANGED <<JOBS, bundles, evq, emitted, reqs, execs, streams, consumers,
                   budget, input>>

NextCritic == \E f \in Failures : ApplyCritic(f)

SpecCritic == InitCritic /\ [][NextCritic]_vars

(***************************************************************************)
(* The Stream table of one test and stream_verification_events             *)
(***************************************************************************)
MaxRows == 3

\* the events on_event stores for one job, in the order it is handed them
JobEvents == <<[t |-> "step_start", id |-> "s1"],
               [t |-> "step_result", id |-> "s1"],
               [t |-> "verdict", status |-> "PASSED"]>>

\* the rows of the test, in insert order: id comes from the Identity column,
\* timestamp from the server default func.now()
DbRows == streams[1]

NoPoller == [pc |-> "idle", last_id |-> 0, batch |-> <<>>, got |-> <<>>]

InitDb ==
    /\ JOBS = [j \in JobIds |-> 0]
    /\ bundles = [r \in Requests |-> NoBundle]
    /\ evq = [r \in Requests |-> <<>>]
    /\ emitted = [r \in Requests |-> <<>>]
    /\ reqs = [r \in Requests |-> NoReq]
    /\ execs = [r \in Requests |-> NoExec]
    /\ streams = [r \in Requests |-> <<>>]
    /\ consumers = [c \in Consumers |-> NoPoller]
    /\ budget = [nreq |-> 0, ncons |-> 0, paths |-> {}, outcomes |-> {}, nget |-> 0, ncrash |-> 0]
    /\ \E steps \in BOOLEAN : input = [steps |-> steps]
    /\ output = [status |-> "RUNNING"]

\* on_event: Stream(test_id, message, meta = ev); add; commit.  The id is the
\* next value of the identity sequence.  The timestamp is whatever now() is
\* in the database at the insert: not earlier than the previous row's of the
\* same writer, and not necessarily later.
DbWrite ==
    /\ Len(DbRows) < MaxRows
    /\ \E ts \in IF DbRows = <<>> THEN {1}
                 ELSE {DbRows[Len(DbRows)].timestamp, DbRows[Len(DbRows)].timestamp + 1} :
          streams' = [streams EXCEPT ![1] =
                         Append(@, [id |-> Len(DbRows) + 1, timestamp |-> ts,
                                    meta |-> JobEvents[Len(DbRows) + 1]])]
    /\ UNCHANGED <<JOBS, bundles, evq, emitted, reqs, execs, consumers,
                   budget, input, output>>

\* update_test_results: test.status = status, after the verification tool
\* has returned its verdict to the agent
DbSetStatus ==
    /\ output.status = "RUNNING"
    /\ \E i \in 1..Len(DbRows) : DbRows[i].meta.t = "verdict"
    /\ \E s \in {"SUCCESS", "FAILED"} : output' = [status |-> s]
    /\ UNCHANGED <<JOBS, bundles, evq, emitted, reqs, execs, streams, consumers,
                   budget, input>>

\* gen() up to the loop: last_id = 0, plan_preview if the test has steps
DbAttach(c) ==
    /\ consumers[c].pc = "idle"
    /\ consumers' = [consumers EXCEPT ![c] =
           [pc |-> "query", last_id |-> 0, batch |-> <<>>,
            got |-> IF input.steps THEN <<[t |-> "plan_preview"]>> ELSE <<>>]]
    /\ UNCHANGED <<JOBS, bundles, evq, emitted, reqs, execs, streams,
                   budget, input, output>>

\* the lists ORDER BY timestamp ASC may return for a set of rows: every
\* arrangement in which no row comes before one with a smaller timestamp
Orderings(S) ==
    {b \in [1..Cardinality(S) -> S] :
        \A i, j \in 1..Cardinality(S) :
            i < j => b[i] # b[j] /\ b[i].timestamp <= b[j].timestamp}

NewRows(last_id) == {DbRows[i] : i \in {k \in 1..Len(DbRows) : DbRows[k].id > last_id}}

\* new_streams = Stream.query.filter_by(test_id).filter(Stream.id > last_id)
\*                    .order_by(Stream.timestamp.asc()).all()
DbQuery(c) ==
    /\ consumers[c].pc = "query"
    /\ \E b \in Orderings(NewRows(consumers[c].last_id)) :
          consumers' = [consumers EXCEPT ![c].batch = b,
                                         ![c].pc = IF b = <<>> THEN "check" ELSE "yield"]
    /\ UNCHANGED <<JOBS, bundles, evq, emitted, reqs, execs, streams,
                   budget, input, output>>

\* one turn of `for stream in new_streams`: yield, last_id = stream.id,
\* return on the verdict
DbYield(c) ==
    /\ consumers[c].pc = "yield"
    /\ \E row \in {Head(consumers[c].batch)} :
          consumers' = [consumers EXCEPT
              ![c].got = Append(@, row.meta),
              ![c].last_id = row.id,
              ![c].batch = IF row.meta.t = "verdict" THEN <<>> ELSE Tail(@),
              ![c].pc = IF row.meta.t = "verdict" THEN "closed"
                        ELSE IF Tail(consumers[c].batch) = <<>> THEN "check"
                        ELSE "yield"]
    /\ UNCHANGED <<JOBS, bundles, evq, emitted, reqs, execs, streams,
                   budget, input, output>>

\* after the batch: return if the test is SUCCESS or FAILED and no row has
\* an id above last_id, else sleep and query again
DbCheck(c) ==
    /\ consumers[c].pc = "check"
    /\ consumers' = [consumers EXCEPT ![c].pc =
           IF /\ output.status \in {"SUCCESS", "FAILED"}
              /\ NewRows(consumers[c].last_id) = {}
           THEN "closed" ELSE "query"]
    /\ UNCHANGED <<JOBS, bundles, evq, emitted, reqs, execs, streams,
                   budget, input, output>>

NextDb ==
    \/ DbWrite
    \/ DbSetStatus
    \/ \E c \in Consumers : DbAttach(c)
    \/ \E c \in Consumers : DbQuery(c)
    \/ \E c \in Consumers : DbYield(c)
    \/ \E c \in Consumers : DbCheck(c)

SpecDb == InitDb /\ [][NextDb]_vars

(***************************************************************************)
(* Properties                                                              *)
(***************************************************************************)
Attached(c) == consumers[c].pc # "idle"
\* the events a consumer was handed after the plan preview
Delivered(c) == Tail(consumers[c].got)
\* the job's execution has emitted its verdict on queue b
Completed(b) == \E i \in 1..Len(emitted[b]) : emitted[b][i].t = "verdict"
Verdicts(s) == {i \in 1..Len(s) : s[i].t = "verdict"}

\* C1: every consumer of a job's event stream is handed the job's events from
\* the first one on, in emission order: what it has been handed is at all
\* times a prefix of what the job has emitted.
C1_ReplayFromFirst ==
    \A c \in Consumers :
        Attached(c) => IsPrefix(Delivered(c), emitted[consumers[c].b])

\* C2: for a completed job whose queue holds nothing more, every consumer of
\* its stream has disconnected, having been handed a sequence that ends with
\* the one verdict event; no consumer is left waiting on the drained queue.
C2_StreamEndsWithVerdict ==
    \A c \in Consumers :
        (Attached(c) /\ Completed(consumers[c].b) /\ evq[consumers[c].b] = <<>>)
        => /\ consumers[c].pc = "closed"
           /\ Verdicts(consumers[c].got) = {Len(consumers[c].got)}

Rejected(r) == reqs[r].pc = "answered" /\ reqs[r].resp.code = 400

\* C3: a submission rejected at the schema, policy, compile or audit stage
\* leaves no trace: the step that rejects it changes neither the registry, the
\* job records, the queues, the executions nor the stream rows, and the
\* rejected request never has a record, an execution, an event or a command.
C3_FailClosed ==
    /\ [](\A r \in Requests :
            Rejected(r) =>
              /\ reqs[r].resp.stage \in {"schema", "policy", "compile", "audit"}
              /\ ~bundles[r].stored /\ \A j \in JobIds : JOBS[j] # r
              /\ execs[r] = NoExec
              /\ emitted[r] = <<>> /\ evq[r] = <<>> /\ streams[r] = <<>>)
    /\ [][\A r \in Requests :
            (~Rejected(r) /\ Rejected(r)') =>
              UNCHANGED <<JOBS, bundles, evq, emitted, execs, streams>>]_vars

\* C3 witness: a submission is rejected by the audit while a job accepted
\* earlier is in the registry
C3_Witness ==
    \E r, q \in Requests :
        /\ Rejected(r) /\ reqs[r].resp.stage = "audit"
        /\ reqs[q].resp.code = 202 /\ JOBS[reqs[q].resp.job_id] = q

\* the command holds a deny-listed pattern in some letter case (the words of
\* the deny list that start or end with a blank also match at the ends of the
\* command)
HoldsDenied(cmd) ==
    \E k \in 1..Len(DENY_PATTERNS) :
        LET padded == <<" ">> \o cmd \o <<" ">>
            n == Len(DENY_PATTERNS[k])
        IN  \E i \in 1..(Len(padded) - n + 1) :
                \A m \in 1..n : LowerChar(padded[i + m - 1]) = DENY_PATTERNS[k][m]

\* the submitted DSLs that pass the schema, name a profile of the catalog and
\* read_only actions of the catalog only, whose sudo binary the profile
\* allows, compile, and whose plan has no command holding a deny-listed pattern
GatedDsls ==
    {d \in Payloads :
        /\ SchemaCheck(d).ok
        /\ d.profile \in DOMAIN Catalog.profiles
        /\ \A k \in 1..Len(d.steps) :
              /\ d.steps[k].action \in DOMAIN Catalog.actions
              /\ Catalog.actions[d.steps[k].action].read_only
              /\ Catalog.actions[d.steps[k].action].requires_sudo =>
                    LET toks == Split(TemplateText(Catalog.actions[d.steps[k].action].cmd))
                    IN  /\ Len(toks) >= 3 /\ toks[1] = SUDO
                        /\ toks[3] \in Catalog.profiles[d.profile].allow_sudo
        /\ compile_plan(d, Catalog).ok
        /\ \A k \in 1..Len(compile_plan(d, Catalog).plan) :
              ~HoldsDenied(compile_plan(d, Catalog).plan[k].cmd)}
\* the commands of their plans, in plan order
GatedCmds ==
    [d \in GatedDsls |->
        [k \in 1..Len(compile_plan(d, Catalog).plan) |-> compile_plan(d, Catalog).plan[k].cmd]]

\* C4: every command handed to the remote executor, on the runner path and
\* on the agent path, is the command of the same position of the plan compiled
\* from a DSL that passes the schema and the policy gate's conditions; all of
\* that plan's commands are free of deny-listed patterns and all of the DSL's
\* actions are read_only in the catalog.
C4_OnlyGatedCommandsRun ==
    \A r \in Requests :
        execs[r].ran # <<>> =>
            /\ execs[r].dsl \in GatedDsls
            /\ Len(execs[r].ran) <= Len(GatedCmds[execs[r].dsl])
            /\ \A i \in 1..Len(execs[r].ran) :
                  execs[r].ran[i].cmd = GatedCmds[execs[r].dsl][i]

\* C4 witness: an agent tool call has handed both commands of a two-step plan
\* to the remote executor
C4_Witness ==
    \E r \in Requests : execs[r].path = "agent" /\ Len(execs[r].ran) = 2

\* the command itself holds the pattern p in some letter case
HoldsCI(cmd, p) ==
    \E i \in 1..(Len(cmd) - Len(p) + 1) :
        \A m \in 1..Len(p) : LowerChar(cmd[i + m - 1]) = LowerChar(p[m])

\* C5: static_audit fails for every command that holds a deny-listed pattern,
\* in any letter case and at any position, and the error names (stripped) a
\* deny-listed pattern that the command holds.
C5_AuditRejectsDenied ==
    output.done =>
        ((\E k \in 1..Len(DENY_PATTERNS) : HoldsCI(input, DENY_PATTERNS[k]))
         => /\ ~output.val.ok
            /\ \E k \in 1..Len(DENY_PATTERNS) :
                  /\ output.val.text = Strip(DENY_PATTERNS[k])
                  /\ HoldsCI(input, Strip(DENY_PATTERNS[k])))

\* C5 witness: a command that holds a pattern with capital letters in it,
\* after other text, has been audited and refused
C5_Witness ==
    /\ output.done /\ ~output.val.ok
    /\ input # Lower(input)
    /\ \E k \in 1..Len(DENY_PATTERNS) :
          HoldsCI(input, DENY_PATTERNS[k]) /\ ~HoldsCI(Take(input, Len(DENY_PATTERNS[k])), DENY_PATTERNS[k])

Accepted(r) == reqs[r].pc = "answered" /\ reqs[r].resp.code = 202

\* C6: at most one submission per job_id is accepted: no two requests are
\* both answered 202 for the same job_id.
C6_OneAcceptedPerJobId ==
    \A r, q \in Requests :
        (r # q /\ Accepted(r) /\ Accepted(q))
        => reqs[r].resp.job_id # reqs[q].resp.job_id

\* C7: the background execution of an accepted job never ends without a
\* stored VerificationResult and an emitted verdict: no exception ends it.
C7_EveryJobGetsVerdict ==
    \A r \in Requests :
        execs[r].pc \in {"done", "crashed"}
        => /\ execs[r].result # NoResult
           /\ Verdicts(execs[r].sent) # {}

\* the event log is step_start(1) step_result(1) ... step_start(n)
\* step_result(n) verdict for the steps of the plan, or a prefix of that
WellNested(log, plan) ==
    /\ Len(log) <= 2 * Len(plan) + 1
    /\ \A i \in 1..Len(log) :
          IF i = 2 * Len(plan) + 1 THEN log[i].t = "verdict"
          ELSE IF i % 2 = 1
               THEN log[i].t = "step_start" /\ log[i].id = plan[(i + 1) \div 2].id
               ELSE log[i].t = "step_result" /\ log[i].id = plan[i \div 2].id

\* C8: the events emitted for a job are well nested: each step_start is
\* followed by its step_result before the next step_start, in plan order, and
\* the one verdict comes after the last step_result with nothing after it.
C8_EventsWellNested ==
    /\ \A b \in Requests : bundles[b].stored => WellNested(emitted[b], bundles[b].plan)
    /\ \A r \in Requests :
          execs[r].path = "agent" => WellNested(streams[r], execs[r].plan)

\* the plan that execute_plan was given
GivenPlan(r) == compile_plan(execs[r].dsl, Catalog).plan
Overran(r, i) ==
    execs[r].outs[i].conn /\ execs[r].outs[i].dur > GivenPlan(r)[i].timeout_s
\* execute_plan has returned
Returned(r) ==
    \/ execs[r].pc \in {"stored", "done", "crashed"}
    \/ execs[r].pc = "ready" /\ Len(execs[r].raw) = Len(execs[r].plan)

\* C9: a step whose command runs longer than the step's timeout yields exit
\* code 124 and stderr "TIMEOUT"; a step whose command completes in time keeps
\* the exit code the command gave; and execute_plan returns only after having
\* started and run every step of the plan, those after a timeout included.
C9_TimeoutOnlyThatStep ==
    \A r \in Requests :
        execs[r].pc \notin {"none", "spawned"} =>
            /\ \A i \in 1..Len(execs[r].raw) :
                  /\ Overran(r, i) =>
                        /\ execs[r].raw[i].exit_code = 124
                        /\ execs[r].raw[i].stderr = TIMEOUT
                  /\ (execs[r].outs[i].conn /\ ~Overran(r, i)) =>
                        execs[r].raw[i].exit_code = execs[r].outs[i].exit
            /\ Returned(r) =>
                  /\ Len(execs[r].ran) = Len(GivenPlan(r))
                  /\ Len(execs[r].raw) = Len(GivenPlan(r))

\* C9 witness: the first step of a two-step plan timed out and the second
\* step ran and completed
C9_Witness ==
    \E r \in Requests :
        /\ Len(execs[r].raw) = 2
        /\ execs[r].raw[1].exit_code = 124
        /\ execs[r].raw[2].exit_code = 0 /\ execs[r].raw[2].stdout # <<>>

EventsOf(s, kind) == {i \in 1..Len(s) : s[i].t = kind}

\* C10: execute_plan hands each step's command to run_cmd once and in plan
\* order, and when it returns it has produced one RawResult, one step_start
\* and one step_result per step of the plan, whatever the steps' outcomes.
C10_EveryStepOnce ==
    \A r \in Requests :
        execs[r].pc \notin {"none", "spawned"} =>
            /\ Len(execs[r].ran) <= Len(GivenPlan(r))
            /\ \A i \in 1..Len(execs[r].ran) :
                  execs[r].ran[i].cmd = GivenPlan(r)[i].cmd
            /\ Len(execs[r].raw) \in {Len(execs[r].ran), Len(execs[r].ran) - 1}
            /\ \A i \in 1..Len(execs[r].raw) :
                  execs[r].raw[i].step_id = GivenPlan(r)[i].id
            /\ Returned(r) =>
                  /\ Len(execs[r].raw) = Len(GivenPlan(r))
                  /\ Len(execs[r].ran) = Len(GivenPlan(r))
                  /\ Cardinality(EventsOf(execs[r].sent, "step_start")) = Len(GivenPlan(r))
                  /\ Cardinality(EventsOf(execs[r].sent, "step_result")) = Len(GivenPlan(r))

\* C10 witness: execute_plan has returned from a two-step plan whose first
\* step could not connect and whose second step exited with a non-zero code
C10_Witness ==
    \E r \in Requests :
        /\ Returned(r) /\ Len(execs[r].raw) = 2
        /\ execs[r].raw[1].exit_code = 255
        /\ execs[r].raw[2].exit_code = 1

\* the lengths of stdout and stderr before run_cmd cuts them: what the command
\* returned when it completed, nothing and "TIMEOUT" when it timed out,
\* nothing and the text of the exception when the connection failed
UncutLens ==
    IF ~input.conn THEN <<0, input.elen>>
    ELSE IF input.dur > StepTimeout THEN <<0, Len(TIMEOUT)>>
    ELSE <<input.olen, input.elen>>

\* C11: every RawResult of run_cmd, on each of its three paths, has a stdout
\* of at most 262144 and a stderr of at most 131072 characters, and truncated
\* is true iff the uncut stdout or stderr was longer than its cap.
C11_PayloadsCapped ==
    output.done =>
        /\ output.val.stdout_len <= OUTPUT_CAP
        /\ output.val.stderr_len <= ERR_CAP
        /\ output.val.truncated <=>
              (UncutLens[1] > OUTPUT_CAP \/ UncutLens[2] > ERR_CAP)

\* the gate's inputs, as the policy rules name them
GateProfileOk == input.dsl.profile \in DOMAIN input.catalog.profiles
GateKnown(k) == input.dsl.steps[k].action \in DOMAIN input.catalog.actions
GateAction(k) == input.catalog.actions[input.dsl.steps[k].action]
GateAllowed == input.catalog.profiles[input.dsl.profile].allow_sudo
GateSteps == 1..Len(input.dsl.steps)
\* the template invokes sudo: its first token is sudo and a token follows
InvokesSudo(a) ==
    LET toks == Split(TemplateText(a.cmd))
    IN  Len(toks) >= 2 /\ toks[1] = SUDO
\* the sudo-invoked binary: the token that follows "sudo" in the template
SudoBinary(a) == Split(TemplateText(a.cmd))[2]
\* the profile exists and every action exists and is read_only
GateReadOnlyDsl ==
    /\ GateProfileOk
    /\ \A k \in GateSteps : GateKnown(k) /\ GateAction(k).read_only
\* step k needs sudo for a binary that the profile does not allow
SudoOffence(k) ==
    /\ GateAction(k).requires_sudo /\ InvokesSudo(GateAction(k))
    /\ SudoBinary(GateAction(k)) \notin GateAllowed

\* C12: a DSL (profile and actions known, actions read_only) with a
\* requires_sudo action whose sudo-invoked binary, the token that follows
\* "sudo" in the template, is not in the profile's allow_sudo list is rejected
\* by policy_gate, and the error names such an action and its binary.
C12_SudoBinaryChecked ==
    (output.done /\ GateReadOnlyDsl /\ \E k \in GateSteps : SudoOffence(k))
    => /\ ~output.val.ok
       /\ \E k \in GateSteps :
             /\ SudoOffence(k)
             /\ output.val.name = input.dsl.steps[k].action
             /\ output.val.text = SudoBinary(GateAction(k))

\* C13: policy_gate raises no error for a DSL whose profile exists, whose
\* actions all exist and are read_only, and whose requires_sudo actions all
\* invoke, as the token that follows "sudo", a binary of the profile's
\* allow_sudo list, whatever follows the binary in the template.
C13_AllowedDslPasses ==
    (/\ output.done /\ GateReadOnlyDsl
     /\ \A k \in GateSteps :
           GateAction(k).requires_sudo =>
               /\ InvokesSudo(GateAction(k))
               /\ SudoBinary(GateAction(k)) \in GateAllowed)
    => output.val.ok

\* a step that the gate accepts on every reading of the sudo rule
GateAcceptable(k) ==
    /\ GateKnown(k) /\ GateAction(k).read_only
    /\ GateAction(k).requires_sudo =>
          LET toks == Split(TemplateText(GateAction(k).cmd))
          IN  /\ Len(toks) >= 3 /\ toks[1] = SUDO
              /\ toks[2] \in GateAllowed /\ toks[3] \in GateAllowed
GateMutating(k) == GateKnown(k) /\ ~GateAction(k).read_only

\* C14: policy_gate rejects every DSL that has a step whose catalog action is
\* not read_only; when the profile exists and all the other steps are
\* acceptable the error is the read-only error and names that action,
\* whatever the action's sudo settings and the step's position.
C14_MutatingRejected ==
    output.done =>
        /\ (\E k \in GateSteps : GateMutating(k)) => ~output.val.ok
        /\ \A k \in GateSteps :
              (/\ GateProfileOk /\ GateMutating(k)
               /\ \A j \in GateSteps :
                     GateMutating(j) \/ GateAcceptable(j))
              => /\ ~output.val.ok
                 /\ output.val.msg = "is not read-only"
                 /\ output.val.name = input.dsl.steps[k].action

\* C14 witness: a DSL whose last step, after two acceptable ones, is a
\* mutating action that requires sudo for a binary the profile does not
\* allow has been rejected
C14_Witness ==
    /\ output.done /\ ~output.val.ok /\ GateProfileOk
    /\ Len(input.dsl.steps) = 3
    /\ GateAcceptable(1) /\ GateAcceptable(2) /\ GateMutating(3)
    /\ GateAction(3).requires_sudo
    /\ GateAllowed = {}

\* the first stage, in the order schema, policy, compile, audit, that the
\* payload fails; None when it passes all four
FirstFailingStage ==
    [p \in Payloads |->
        IF ~SchemaCheck(p).ok THEN "schema"
        ELSE IF ~policy_gate(p, Catalog).ok THEN "policy"
        ELSE IF ~compile_plan(p, Catalog).ok THEN "compile"
        ELSE IF \E k \in 1..Len(compile_plan(p, Catalog).plan) :
                    ~static_audit(compile_plan(p, Catalog).plan[k].cmd).ok THEN "audit"
        ELSE None]

\* C15: a submission is answered with the first stage it fails in the order
\* schema, policy, compile, audit, duplicate job_id (400, and 409 for the
\* duplicate) and goes on only when it passes all five; a job record is
\* stored only for a request that has passed them, the execution is started
\* only once the record is stored, and the job_id is returned only once the
\* record is stored and the execution started.
C15_StagesInOrder ==
    /\ [][\A r \in Requests, p \in Payloads :
            SubmitCheck(r, p) =>
                IF FirstFailingStage[p] # None
                THEN /\ reqs'[r].pc = "answered" /\ reqs'[r].resp.code = 400
                     /\ reqs'[r].resp.stage = FirstFailingStage[p]
                ELSE IF JOBS[p.job_id] # 0
                THEN /\ reqs'[r].pc = "answered" /\ reqs'[r].resp.code = 409
                     /\ reqs'[r].resp.stage = "duplicate"
                ELSE reqs'[r].pc = "checked" /\ reqs'[r].dsl = p]_vars
    /\ [][\A r \in Requests :
            (~bundles[r].stored /\ bundles'[r].stored)
            => /\ reqs[r].pc = "checked"
               /\ FirstFailingStage[reqs[r].dsl] = None
               /\ execs[r].pc = "none"]_vars
    /\ [][\A r \in Requests :
            /\ (execs[r].pc = "none" /\ execs'[r].pc # "none"
                   /\ execs'[r].path = "runner") => bundles'[r].stored
            /\ (~Accepted(r) /\ Accepted(r)')
                  => /\ bundles'[r].stored
                     /\ execs'[r].pc # "none"
                     /\ JOBS'[reqs'[r].resp.job_id] # 0]_vars

\* C15 witness: a payload that fails two stages, submitted under a job_id
\* that is already stored, has been answered 400 with the earlier stage
C15_Witness ==
    \E r, q \in Requests :
        /\ Rejected(r) /\ reqs[r].resp.stage = "compile"
        /\ Accepted(q) /\ reqs[q].resp.job_id = "j2"

\* the execution has built its VerificationResult
Judged(r) == execs[r].pc \in {"stored", "done"}

\* C16: the status of a VerificationResult is SUCCESS when every per-step ok
\* is true and FAILED otherwise, never anything else; there is one per-step
\* entry per step of the plan, the empty plan included, and a step without a
\* validator is ok.
C16_StatusIsConjunction ==
    \A r \in Requests :
        Judged(r) =>
            LET res == execs[r].result
            IN  /\ res.status \in {"SUCCESS", "FAILED"}
                /\ res.status = "SUCCESS" <=>
                      \A i \in 1..Len(res.per_step) : res.per_step[i].ok
                /\ Len(res.per_step) = Len(GivenPlan(r))
                /\ \A i \in 1..Len(res.per_step) :
                      /\ res.per_step[i].id = GivenPlan(r)[i].id
                      /\ GivenPlan(r)[i].validator = <<>> => res.per_step[i].ok

\* C16 witness: a job without steps has ended SUCCESS and a job whose first
\* step has no validator and whose second step is not ok has ended FAILED
C16_Witness ==
    \E r, q \in Requests :
        /\ Judged(r) /\ execs[r].result.per_step = <<>>
        /\ execs[r].result.status = "SUCCESS"
        /\ Judged(q) /\ Len(execs[q].result.per_step) = 2
        /\ execs[q].result.per_step[1].ok /\ ~execs[q].result.per_step[2].ok
        /\ execs[q].result.status = "FAILED"

\* C17: the job with the one step {s1, read_meminfo, parse_meminfo,
\* total_mem_within_pct(16,2)} whose command prints "MemTotal: 16384000 kB"
\* ends with per_step = [{id s1, ok true}] and status SUCCESS.
C17_MeminfoScenario ==
    (/\ output.done
     /\ input.stdout = MemText(16384000)
     /\ input.validator = TMWP \o <<"(","1","6",",","2",")">>
     /\ input.context = NoCtx)
    => /\ ~output.val.raised
       /\ output.val.status = "SUCCESS"
       /\ Len(output.val.per_step) = 1
       /\ output.val.per_step[1].id = "s1"
       /\ output.val.per_step[1].ok

\* C18: once get_result has returned a job's VerificationResult it returns
\* that same result at every later point; and whenever a verdict has been
\* emitted on a job's event queue the result of that job is stored.
C18_ResultReadyAndStable ==
    /\ \A b \in Requests : Completed(b) => bundles[b].result # NoResult
    /\ (output.done /\ output.val.code = 200) => GetResultOf(output.job) = output.val

\* C19: the status that a job's record carries is a state of the machine
\* QUEUED, PRECHECKS, EXECUTING, POSTCHECKS, JUDGING, DONE | FAILED, and the
\* status of a job that has ended is DONE or FAILED.
C19_StatusMachine ==
    \A b \in Requests :
        (bundles[b].stored /\ bundles[b].result # NoResult)
        => /\ bundles[b].result.status \in Status
           /\ bundles[b].result.status \in {"DONE", "FAILED"}

\* the background execution r writes to the record (queue and result) b
Writes(r, b) == execs[r].path = "runner" /\ execs[r].b = b

\* C20: a job_id's registry slot is never replaced by a second record, and
\* no two background executions write to the same record's event queue and
\* result slot.
C20_OneSlotOneWriter ==
    \A r, q \in Requests :
        r # q =>
            /\ (bundles[r].stored /\ bundles[q].stored)
                  => bundles[r].dsl.job_id # bundles[q].dsl.job_id
            /\ \A b \in Requests : ~(Writes(r, b) /\ Writes(q, b))

\* C21: the job record is in the registry before the job's background
\* execution emits step_start or hands a command to run_cmd, and the record
\* of an accepted submission stays discoverable by its job_id, also after
\* the process has ended and started again.
C21_RecordBeforeRunAndDurable ==
    /\ [][\A r \in Requests :
            (execs'[r].path = "runner"
             /\ (execs'[r].sent # execs[r].sent \/ execs'[r].ran # execs[r].ran))
            => /\ JOBS[execs[r].job_id] # 0
               /\ bundles[JOBS[execs[r].job_id]].stored]_vars
    /\ [](\A r \in Requests :
            Accepted(r) => /\ JOBS[reqs[r].resp.job_id] # 0
                           /\ bundles[JOBS[reqs[r].resp.job_id]].stored)

\* the first half of C21 alone
C21_RecordBeforeRun ==
    [][\A r \in Requests :
          (execs'[r].path = "runner"
           /\ (execs'[r].sent # execs[r].sent \/ execs'[r].ran # execs[r].ran))
          => /\ JOBS[execs[r].job_id] # 0
             /\ bundles[JOBS[execs[r].job_id]].stored]_vars

\* an accepted submission whose job_id the registry does not know
C21_Lost ==
    \E r \in Requests : Accepted(r) /\ JOBS[reqs[r].resp.job_id] = 0

\* C22: submit_job does not wait for a remote step: a submission that has
\* passed the checks is answered although remote commands of this or of
\* another job never return, and at the moment it is answered 202 no step of
\* its job has started.
C22_SubmitNonBlocking ==
    /\ \A r \in Requests : (reqs[r].pc = "checked") ~> (reqs[r].pc = "answered")
    /\ [][\A r \in Requests :
            (~Accepted(r) /\ Accepted(r)')
            => (execs'[r].pc = "spawned" /\ execs'[r].ran = <<>>
                /\ execs'[r].sent = <<>>)]_vars

\* a submission is answered 202 while a remote command of another job is
\* outstanding, and one while a command of its own job is
C22_Witness ==
    \E r, q \in Requests :
        /\ r # q /\ Accepted(r) /\ execs[r].pc = "spawned"
        /\ Accepted(q) /\ execs[q].pc = "running"

MaxTimeout == input.catalog.profiles[input.dsl.profile].max_timeout_s

\* C24: every ExecStep of a compiled plan has the smaller of its step's
\* timeout_s and the profile's max_timeout_s as its timeout_s, so none is
\* above the profile's maximum.
C24_TimeoutClamped ==
    \A n \in 1..Len(output.vals) :
        output.vals[n].ok =>
            \A i \in 1..Len(output.vals[n].plan) :
                LET t == output.vals[n].plan[i].timeout_s
                    st == input.dsl.steps[i].timeout_s
                IN  /\ t <= MaxTimeout /\ t <= st
                    /\ t = st \/ t = MaxTimeout

\* a plan with a step whose timeout was cut to the maximum and a step whose
\* timeout was below it
C24_Witness ==
    /\ output.done /\ output.vals[1].ok
    /\ \E i, j \in 1..Len(output.vals[1].plan) :
          /\ input.dsl.steps[i].timeout_s > MaxTimeout
          /\ output.vals[1].plan[i].timeout_s = MaxTimeout
          /\ input.dsl.steps[j].timeout_s < MaxTimeout
          /\ output.vals[1].plan[j].timeout_s = input.dsl.steps[j].timeout_s

\* the placeholders of step i's template without a value, in template order
Unfilled(i) ==
    LET st == input.dsl.steps[i]
        tpl == input.catalog.actions[st.action].cmd
    IN  SelectSeq([k \in 1..Len(tpl) |->
                      IF "ph" \in DOMAIN tpl[k] THEN tpl[k].ph ELSE "host"],
                  LAMBDA key : key # "host" /\ key \notin DOMAIN st.args)
UnknownAction(i) == input.dsl.steps[i].action \notin DOMAIN input.catalog.actions
Defective(i) == UnknownAction(i) \/ Unfilled(i) # <<>>

\* C25: compile_plan returns no plan when a step's action is not in the
\* catalog or a placeholder of a step's template has no value in step.args
\* or target.host; the error is that of the first such step: unknown action,
\* naming the action, or missing argument, naming the first absent key; and
\* it returns a plan otherwise.
C25_CompileFailsClosed ==
    \A n \in 1..Len(output.vals) :
        LET v == output.vals[n]
            bad == {i \in 1..Len(input.dsl.steps) : Defective(i)}
        IN  /\ v.ok <=> bad = {}
            /\ ~v.ok =>
                 LET i == CHOOSE k \in bad : \A m \in bad : k <= m
                 IN  /\ "plan" \notin DOMAIN v
                     /\ v.name = input.dsl.steps[i].action
                     /\ IF UnknownAction(i) THEN v.msg = "Unknown action"
                        ELSE /\ v.msg = "Missing arg"
                             /\ v.text = <<Head(Unfilled(i))>>

\* a good step followed by a step without its argument, and no plan
C25_Witness ==
    /\ output.done /\ ~output.vals[1].ok
    /\ Len(input.dsl.steps) = 2
    /\ ~Defective(1) /\ ~UnknownAction(2) /\ Unfilled(2) # <<>>
    /\ output.vals[1].msg = "Missing arg"

\* the actual total, the expected total and the percentage of the call, in
\* hundredths
MemActual == IF "total_gib" \in DOMAIN input.parsed
             THEN Hundredths(input.parsed.total_gib) ELSE 0
MemExpected == IF Len(input.args) >= 1 THEN Hundredths(input.args[1]) ELSE 1600
MemPct == IF Len(input.args) >= 2 THEN Hundredths(input.args[2]) ELSE 200

\* C26: total_mem_within_pct returns ok exactly when |actual - expected| <=
\* expected * pct / 100; with expected 16 and pct 2 that is every total from
\* 15.68 to 16.32, both included, and not 15.0.
C26_MemWithinPct ==
    output.done =>
        /\ ~output.val.raised
        /\ output.val.ok <=> Abs(MemActual - MemExpected) * 10000 <= MemExpected * MemPct
        /\ (MemExpected = 1600 /\ MemPct = 200)
           => /\ MemActual \in 1568..1632 => output.val.ok
              /\ MemActual = 1500 => ~output.val.ok

\* C26 away from the two ends of the interval
C26_InsideAndOutside ==
    (output.done /\ Abs(MemActual - MemExpected) * 10000 # MemExpected * MemPct)
    => /\ ~output.val.raised
       /\ output.val.ok <=> Abs(MemActual - MemExpected) * 10000 < MemExpected * MemPct

\* a total at an end of the interval that is not ok
C26_EndpointRejected ==
    /\ output.done /\ ~output.val.ok
    /\ input.args = <<PyInt(16), PyInt(2)>>
    /\ MemActual \in {1568, 1632}

\* the parsed DIMM d is an entry for the expected DIMM e: the same slot,
\* size rounded to two decimals, speed and ECC
DimmMatches(e, d) ==
    /\ DOMAIN d # {}
    /\ d.slot = e.slot
    /\ Round2(IF "size_gib" \in DOMAIN d /\ d.size_gib # -1 THEN d.size_gib ELSE 0)
          = Round2(e.size_gib)
    /\ SpeedOf(d) = SpeedOf(e)
    /\ ("ecc" \in DOMAIN d /\ d.ecc) <=> ("ecc" \notin DOMAIN e \/ e.ecc)
\* the slots of the expected DIMMs without an entry
UnmatchedSlots ==
    {input.expected[i].slot : i \in
        {k \in 1..Len(input.expected) :
            \A j \in 1..Len(input.dimms) : ~DimmMatches(input.expected[k], input.dimms[j])}}
\* the slots the note lists, in its order
ListedSlots == Tail(output.val.note)

\* C27: all_expected_dimms returns ok exactly when every expected DIMM has
\* a matching parsed entry; when it does not, the note lists the expected
\* slots without a matching entry, each of them once and no other slot.
C27_MissingListedOnce ==
    output.done =>
        /\ ~output.val.raised
        /\ output.val.ok <=> UnmatchedSlots = {}
        /\ ~output.val.ok =>
             /\ {ListedSlots[k] : k \in 1..Len(ListedSlots)} = UnmatchedSlots
             /\ \A k, m \in 1..Len(ListedSlots) :
                   ListedSlots[k] = ListedSlots[m] => k = m

\* C27 without "each once": the slots listed are those without an entry
C27_MissingListed ==
    output.done =>
        /\ ~output.val.raised
        /\ output.val.ok <=> UnmatchedSlots = {}
        /\ ~output.val.ok =>
             {ListedSlots[k] : k \in 1..Len(ListedSlots)} = UnmatchedSlots

\* a note that lists one slot twice
C27_ListedTwice ==
    /\ output.done /\ ~output.val.ok
    /\ \E k, m \in 1..Len(ListedSlots) : k # m /\ ListedSlots[k] = ListedSlots[m]

\* the name of the validator the step refers to
ValidatorName(step) == parse_validator_spec(step.validator)[1]
\* the step refers to a validator that is not registered
UnknownValidator(step) ==
    step.validator # <<>> /\ ValidatorName(step) \notin VALIDATORS

\* C28: a step that names an unregistered validator gets ok=false and a note
\* that names the validator; the execution in the background does not crash
\* because of it, the other steps of the plan are judged all the same, and
\* the job ends FAILED.
C28_UnknownValidatorFails ==
    \A r \in Requests :
        LET plan == GivenPlan(r)
            res  == execs[r].result
        IN  /\ (Judged(r) /\ \E i \in 1..Len(plan) : UnknownValidator(plan[i])) =>
                 /\ res.status = "FAILED"
                 /\ Len(res.per_step) = Len(plan)
                 /\ \A i \in 1..Len(plan) :
                       /\ UnknownValidator(plan[i]) =>
                            /\ ~res.per_step[i].ok
                            /\ res.per_step[i].notes
                                  = <<"Unknown validator ">> \o ValidatorName(plan[i])
                       /\ plan[i].validator = <<>> => res.per_step[i].ok
            /\ execs[r].pc = "crashed" =>
                 \E i \in 1..Len(plan) :
                     plan[i].validator # <<>> /\ ~UnknownValidator(plan[i])

\* C28 witness: a job whose first step names an unregistered validator has
\* its verdict, FAILED, with the second step judged ok
C28_Witness ==
    \E r \in Requests :
        /\ execs[r].pc = "done" /\ execs[r].path = "runner"
        /\ Len(GivenPlan(r)) = 2
        /\ UnknownValidator(GivenPlan(r)[1])
        /\ bundles[execs[r].b].result.status = "FAILED"
        /\ ~bundles[execs[r].b].result.per_step[1].ok
        /\ bundles[execs[r].b].result.per_step[2].ok
        /\ VerdictEv(execs[r].result) = emitted[execs[r].b][Len(emitted[execs[r].b])]

\* bundle["result"] has been assigned
HasResult(b) == bundles[b].result.status # None

\* C30: the per_step of a stored VerificationResult has one entry per step
\* of the bundle's ExecPlan, with the plan's ids in the plan's order, whatever
\* the commands did (completed, failed, overran, connection refused) and
\* also when two steps have the same id.
C30_PerStepAlignsWithPlan ==
    \A b \in Requests :
        HasResult(b) =>
            /\ Len(bundles[b].result.per_step) = Len(bundles[b].plan)
            /\ \A i \in 1..Len(bundles[b].plan) :
                  bundles[b].result.per_step[i].id = bundles[b].plan[i].id

\* C30 witness: the result of a plan of two steps with the same id is stored
\* after one command overran and the connection for the other was refused
C30_Witness ==
    \E r \in Requests :
        /\ execs[r].path = "runner" /\ Judged(r)
        /\ HasResult(execs[r].b)
        /\ Len(bundles[execs[r].b].plan) = 2
        /\ bundles[execs[r].b].plan[1].id = bundles[execs[r].b].plan[2].id
        /\ execs[r].outs = <<Overruns, Refuses>>
        /\ Len(bundles[execs[r].b].result.per_step) = 2

\* C30 for each outcome: a stored result after a command that failed, and
\* one after a command that completed
C30_WitnessFails ==
    \E r \in Requests :
        /\ execs[r].path = "runner" /\ Judged(r)
        /\ HasResult(execs[r].b)
        /\ execs[r].outs = <<Fails, Completes>>

\* the DSL holds a step with the id of the fallback
Patched(dsl) == \E i \in 1..Len(dsl.steps) : dsl.steps[i].id = FALLBACK_ID

\* C29: after any number of calls of critic_propose_patch on a DSL, with any
\* failures, the steps of the DSL are the original steps, unchanged and in
\* their order, followed by one appended step at most, and a call on a DSL
\* that is patched already changes nothing.
C29_AtMostOnePatch ==
    /\ [](/\ Len(output.dsl.steps) \in {Len(input.steps), Len(input.steps) + 1}
          /\ SubSeq(output.dsl.steps, 1, Len(input.steps)) = input.steps
          /\ [output.dsl EXCEPT !.steps = input.steps] = input)
    /\ [][Patched(output.dsl) =>
             /\ output'.dsl = output.dsl
             /\ ~output'.rets[Len(output'.rets)]]_vars

\* C29 witness: three calls on a NIC DSL without the fallback: the first call
\* appended the step for the interface of the first NIC read, the two calls
\* after it returned None and the steps are the original ones and that step
C29_Witness ==
    /\ Len(output.rets) = 3 /\ output.rets = <<TRUE, FALSE, FALSE>>
    /\ Len(input.steps) = 2 /\ ~Patched(input)
    /\ output.dsl.steps = Append(input.steps, FallbackStep(<<"e","1">>))

\* the thread of r waits for run_cmd on its k-th step, and the host does o
Waiting(r, k, o) ==
    execs[r].pc = "running" /\ Len(execs[r].ran) = k /\ budget.outcomes = {o}
\* the k-th step of r has its RawResult, with exit code 124
TimedOut(r, k) ==
    Len(execs[r].raw) >= k /\ execs[r].raw[k].exit_code = 124

\* C31: the step's timeout bounds the whole remote interaction of the step:
\* when the host never completes the handshake, the step still gets a
\* RawResult with exit code 124 and the plan goes on: execute_plan returns
\* with every step run, which the job needs to get to its verdict.
C31_HandshakeUnderTimeout ==
    \A r \in Requests, k \in 1..2 :
        /\ Waiting(r, k, Stalls) ~> TimedOut(r, k)
        /\ Waiting(r, k, Stalls) ~> Returned(r)

\* C31 for a command that does not end: the connection is made, the command
\* runs past the timeout, the step gets exit code 124 and the plan goes on
C31_CommandUnderTimeout ==
    \A r \in Requests, k \in 1..2 :
        /\ Waiting(r, k, Overruns) ~> TimedOut(r, k)
        /\ Waiting(r, k, Overruns) ~> Returned(r)

\* the thread waits for a handshake that does not complete
C31_Stalled ==
    \E r \in Requests : Waiting(r, 1, Stalls) /\ Len(execs[r].plan) = 2

\* C32: the decision of policy_gate depends on the profile, the actions of
\* the steps and the catalog only: two DSLs that differ in the arguments of
\* the steps, the host, the timeouts, the parsers, the validators or the
\* context are both accepted, or both rejected with the same error.
C32_GateIgnoresTheRest ==
    output.done =>
        /\ input.other.profile = input.dsl.profile
        /\ Len(input.other.steps) = Len(input.dsl.steps)
        /\ \A k \in 1..Len(input.dsl.steps) :
              input.other.steps[k].action = input.dsl.steps[k].action
        /\ output.other = output.val

\* C32 witness: two DSLs that differ in everything but the profile and the
\* actions have both been rejected, and two others both accepted
C32_Witness ==
    /\ output.done /\ ~output.val.ok /\ ~output.other.ok
    /\ Len(input.dsl.steps) = 2
    /\ input.other.host # input.dsl.host
    /\ input.other.context # input.dsl.context
    /\ \A k \in 1..2 :
          /\ input.other.steps[k].args # input.dsl.steps[k].args
          /\ input.other.steps[k].timeout_s # input.dsl.steps[k].timeout_s
          /\ input.other.steps[k].validator # input.dsl.steps[k].validator

\* two DSLs that differ in everything but the profile and the actions, both
\* accepted
C32_WitnessAccepted ==
    /\ output.done /\ output.val.ok /\ output.other.ok
    /\ Len(input.dsl.steps) = 2
    /\ input.other.host # input.dsl.host
    /\ input.other.steps[1].args # input.dsl.steps[1].args

\* the keys of the record a registered parser returns
ParserKeys(name) ==
    CASE name = "parse_dmidecode" -> {"dimms"}
      [] name = "parse_meminfo"   -> {"total_gib"}
      [] name = "parse_smart"     -> {"smart_pass"}

\* C33: the parse stage is total: whatever the parser name and the output
\* (empty, malformed, or with a line that has a known key and no ":"), it
\* returns a record and does not raise: the record of the parser when the
\* name is registered, {raw_len: len(stdout)} when it is not.
C33_ParseIsTotal ==
    output.done =>
        /\ ~output.raised
        /\ IF input.parser # None /\ input.parser \in PARSERS
           THEN DOMAIN output.parsed = ParserKeys(input.parser)
           ELSE output.parsed = [raw_len |-> PyInt(Len(input.stdout))]

\* a line that starts with one of the keys of a memory device and has no ":"
KeyWithoutColon(l) ==
    /\ ~Contains(<<":">>, l)
    /\ \E k \in {K_SIZE, K_CSPEED, K_SPEED, K_TYPE, K_LOCATOR, K_BANK, K_ECC} :
          StartsWith(Strip(l), k)

\* C33 but for those lines: the parse stage returns a record for every other
\* output, and for every output when the parser is not parse_dmidecode
C33_TotalButForKeyLines ==
    output.done =>
        /\ output.raised =>
              /\ input.parser = "parse_dmidecode"
              /\ \E i \in 1..Len(input.lines) : KeyWithoutColon(input.lines[i])
        /\ ~output.raised =>
              IF input.parser # None /\ input.parser \in PARSERS
              THEN DOMAIN output.parsed = ParserKeys(input.parser)
              ELSE output.parsed = [raw_len |-> PyInt(Len(input.stdout))]

\* parse_dmidecode has raised on a device whose Size line has no ":"
C33_Raised ==
    /\ output.done /\ output.raised
    /\ input.lines = <<MEMORY_DEVICE, <<"S","i","z","e"," ","1","6"," ","G","B">>>>

\* ctx.get("expected", {}).get("total_gib")
ExpectedTotal(ctx) ==
    IF "expected" \in DOMAIN ctx THEN Get(ctx.expected.d, "total_gib", PyNone) ELSE PyNone

\* C34: a bare total_mem_within_pct is called with the context's
\* expected_total_gib when the context has that key and with
\* expected.total_gib when it has not, and with the context's pct (2 without
\* one); a bare all_expected_dimms is called with the context's
\* expected_dimms ([] without one); arguments given in the reference are the
\* arguments of the call, whatever the context.
C34_ContextDefaults ==
    output.done =>
        /\ ~output.raised
        /\ output.given # <<>> => output.args = output.given
        /\ (output.given = <<>> /\ output.name = TMWP) =>
              /\ output.args[1] = IF "expected_total_gib" \in DOMAIN input.context
                                  THEN input.context.expected_total_gib
                                  ELSE ExpectedTotal(input.context)
              /\ output.args[2] = Get(input.context, "pct", PyInt(2))
        /\ (output.given = <<>> /\ output.name = AED) =>
              output.args = <<Get(input.context, "expected_dimms", PyList(<<>>))>>

\* C34 with the fallback the code has: expected.total_gib is taken when
\* expected_total_gib is absent or falsy (0, None, "")
C34_FalsyFallsBack ==
    output.done =>
        /\ ~output.raised
        /\ output.given # <<>> => output.args = output.given
        /\ (output.given = <<>> /\ output.name = TMWP) =>
              /\ output.args[1] = IF /\ "expected_total_gib" \in DOMAIN input.context
                                     /\ Truthy(input.context.expected_total_gib)
                                  THEN input.context.expected_total_gib
                                  ELSE ExpectedTotal(input.context)
              /\ output.args[2] = Get(input.context, "pct", PyInt(2))
        /\ (output.given = <<>> /\ output.name = AED) =>
              output.args = <<Get(input.context, "expected_dimms", PyList(<<>>))>>

\* a bare total_mem_within_pct under a context with expected_total_gib 0 and
\* expected.total_gib 8 has been given 8
C34_ZeroSkipped ==
    /\ output.done /\ output.name = TMWP /\ output.given = <<>>
    /\ "expected_total_gib" \in DOMAIN input.context
    /\ input.context.expected_total_gib = PyInt(0)
    /\ output.args[1] = PyInt(8)

\* an integer literal: digits, or a minus sign and digits
IsIntLit(a) == AllDigits(a) \/ (a # <<>> /\ a[1] = "-" /\ AllDigits(Tail(a)))
IntLitVal(a) == IF a[1] = "-" THEN -ToInt(Tail(a)) ELSE ToInt(a)

\* the literals of the reference that are not blank, stripped, in their order
GivenLiterals ==
    SelectSeq([i \in 1..Len(input.lits) |-> Strip(input.lits[i])], LAMBDA a : a # <<>>)

\* C35: _parse_validator_spec gives (name, []) for a bare name and
\* (name, [cast(a1), ..., cast(an)]) for name(a1,...,an), in the order of the
\* literals, where an integer literal, a negative one included, is cast to
\* an int, another numeric literal to a float, and anything else is kept as
\* a string.
C35_CastIntFloatStr ==
    output.done =>
        /\ output.val[1] = input.name
        /\ Len(output.val[2]) = Len(GivenLiterals)
        /\ \A i \in 1..Len(GivenLiterals) :
              output.val[2][i] =
                 IF IsIntLit(GivenLiterals[i]) THEN PyInt(IntLitVal(GivenLiterals[i]))
                 ELSE IF IsFloatLit(GivenLiterals[i])
                      THEN PyFloat(FloatVal(GivenLiterals[i]))
                      ELSE PyStr(GivenLiterals[i])

\* C35 with the cast the code has: an int for a literal of digits only, and
\* a float for every other numeric literal, the negative integers included
C35_CastDigitsFloatStr ==
    output.done =>
        /\ output.val[1] = input.name
        /\ Len(output.val[2]) = Len(GivenLiterals)
        /\ \A i \in 1..Len(GivenLiterals) :
              output.val[2][i] =
                 IF AllDigits(GivenLiterals[i]) THEN PyInt(ToInt(GivenLiterals[i]))
                 ELSE IF IsFloatLit(GivenLiterals[i])
                      THEN PyFloat(FloatVal(GivenLiterals[i]))
                      ELSE PyStr(GivenLiterals[i])

\* name(16,-5) has been parsed into the int 16 and the float -5.0
C35_NegativeIsFloat ==
    /\ output.done /\ input.lits = << <<"1","6">>, <<"-","5">> >>
    /\ output.val[2] = <<PyInt(16), PyFloat(-500)>>

\* the steps of the DSL the failure is about: those with the failure's
\* step_id that read an interface
FailedReads(dsl, failure) ==
    {i \in 1..Len(dsl.steps) :
        /\ "step_id" \in DOMAIN failure
        /\ <<dsl.steps[i].id>> = failure.step_id.s
        /\ "iface" \in DOMAIN dsl.steps[i].args}

\* C36: when the NIC rule fires for a parse failure on interface X, the
\* fallback step that is appended reads X; and on a DSL that has a step with
\* the id of the fallback already, nothing is appended and None is returned.
C36_FallbackReadsFailedInterface ==
    [][\A f \in Failures :
          ApplyCritic(f) =>
             /\ (output'.rets[Len(output'.rets)] /\ FailedReads(output.dsl, f) # {}) =>
                   \A i \in FailedReads(output.dsl, f) :
                       output'.dsl.steps[Len(output'.dsl.steps)].args.iface
                          = output.dsl.steps[i].args.iface
             /\ Patched(output.dsl) =>
                   /\ output'.dsl = output.dsl
                   /\ ~output'.rets[Len(output'.rets)]]_vars

\* C36 with the interface the code takes: that of the first step of the DSL
\* whose action starts with read_nic (None when that step names none), and
\* eth0 when the DSL has no such step
C36_FallbackReadsFirstNic ==
    [][\A f \in Failures :
          ApplyCritic(f) =>
             /\ output'.rets[Len(output'.rets)] =>
                   /\ output'.dsl.steps
                         = Append(output.dsl.steps, FallbackStep(FirstIface(output.dsl.steps)))
                   /\ Get(output.dsl.context, "component", PyNone) = PyStr(<<"nic">>)
                   /\ f.parser = PyStr(<<"parse_ethtool">>)
             /\ Patched(output.dsl) =>
                   /\ output'.dsl = output.dsl
                   /\ ~output'.rets[Len(output'.rets)]]_vars

\* the failure was in the step that reads e2 and the fallback reads e1
C36_OtherInterface ==
    /\ output.rets = <<TRUE>>
    /\ Len(input.steps) = 2
    /\ input.steps[1].id = "s1" /\ input.steps[2].id = "s4"
    /\ output.dsl.steps[3].args.iface = <<"e","1">>

\* what a connection was handed from the table, and what the table holds
DbDelivered(c) == SelectSeq(consumers[c].got, LAMBDA e : e.t # "plan_preview")
DbStored == [i \in 1..Len(DbRows) |-> DbRows[i].meta]
InEmissionOrder(c) ==
    /\ IsPrefix(DbDelivered(c), DbStored)
    /\ consumers[c].pc = "closed" =>
          /\ DbDelivered(c) # <<>>
          /\ DbDelivered(c)[Len(DbDelivered(c))].t = "verdict"

C37_WhenTimestampsGrow ==
    (\A i, j \in 1..Len(DbRows) : i < j => DbRows[i].timestamp < DbRows[j].timestamp)
        => \A c \in Consumers : InEmissionOrder(c)

\* a connection that was handed the same event twice
C37_DeliveredTwice ==
    \E c \in Consumers : \E i, j \in 1..Len(DbDelivered(c)) :
        i < j /\ DbDelivered(c)[i] = DbDelivered(c)[j]

\* the hosts the steps of execution r were run against
OnTargetHost(r) ==
    \A i \in 1..Len(execs[r].ran) : execs[r].ran[i].host = execs[r].dsl.host

\* C38: on both execution paths every step of a job is run against the host
\* named by the job's target.host, the value compile_plan put into the
\* commands.
C38_StepsRunOnTargetHost == \A r \in Requests : OnTargetHost(r)

\* the same, for the jobs the runner executes
C38_RunnerOnTargetHost ==
    \A r \in Requests : execs[r].path = "runner" => OnTargetHost(r)

\* a step of an agent call that ran on another host than the DSL names
C38_AgentOnFixedHost ==
    \E r \in Requests :
        /\ execs[r].path = "agent" /\ execs[r].ran # <<>>
        /\ execs[r].ran[1].host = AGENT_HOST
        /\ execs[r].dsl.host # AGENT_HOST

\* C39: two runs of the same plan whose RawResults differ only in exit_code,
\* stderr, duration_ms or truncated get the same per_step list and the same
\* verdict (or both raise).
C39_VerdictReadsStdoutOnly == output.done => output.other = output.runner

\* a command that timed out with empty stdout, judged as the one that
\* exited with 0 and printed nothing
C39_Witness ==
    /\ output.done
    /\ input.stdout = <<>> /\ input.report.exit_code = 124
    /\ input.report.stderr = TIMEOUT
    /\ ~output.runner.raised
    /\ output.other = output.runner

\* C40: on the same DSL, plan and RawResults the runner's and the agent
\* tool's judgement give the same per_step list, status and summary, and so
\* the same verdict event, also when a bare total_mem_within_pct finds no
\* expectation in the context.
C40_PipelinesAgree == output.done => output.agent = output.runner

\* a bare total_mem_within_pct with neither expected_total_gib nor expected
\* in the context
BareWithoutExpectation == input.validator = TMWP /\ input.context = NoCtx

\* the pipelines agree on every other input
C40_AgreeWithExpectation ==
    (output.done /\ ~BareWithoutExpectation) => output.agent = output.runner

\* the runner's loop raises where the agent tool reaches a verdict
C40_RunnerRaisesAgentJudges ==
    /\ output.done /\ BareWithoutExpectation
    /\ output.runner.raised
    /\ ~output.agent.raised /\ output.agent.status = "SUCCESS"

====
